---- MODULE Spec2Model ----
(***************************************************************************)
(* A model of the nfsserve protocol engine: file-handle minting and        *)
(* parsing (src/vfs.rs), the NFS v3 procedure handlers                     *)
(* (src/nfs_handlers.rs), the READDIR / READDIRPLUS pagination loop, and   *)
(* the per-connection reader / worker / writer tasks (src/rpcwire.rs,      *)
(* src/tcp.rs).                                                            *)
(***************************************************************************)
EXTENDS Integers, Sequences, FiniteSets, TLC

(***************************************************************************)
(* Bounds of the model                                                     *)
(***************************************************************************)
\* number of clock ticks (milliseconds) the model lets pass after start-up
MaxTicks == 1
\* largest fileid a client asks a handle for
MaxFileId == 2

\* wall clock (ms since the epoch) when the process starts
StartMs == 1000

(***************************************************************************)
(* Result<T, nfsstat3>                                                     *)
(***************************************************************************)
Ok(v) == [ok |-> TRUE, val |-> v, err |-> "NFS3_OK"]
Err(e) == [ok |-> FALSE, val |-> 0, err |-> e]

(***************************************************************************)
(* u64::to_le_bytes / u64::from_le_bytes                                   *)
(***************************************************************************)
\* x >> (8 * k)
RECURSIVE ShiftRightBytes(_, _)
ShiftRightBytes(x, k) == IF k = 0 THEN x ELSE ShiftRightBytes(x \div 256, k - 1)

to_le_bytes(x) == [k \in 1..8 |-> ShiftRightBytes(x, k - 1) % 256]

RECURSIVE from_le_bytes(_)
from_le_bytes(b) ==
    IF Len(b) = 0 THEN 0 ELSE Head(b) + 256 * from_le_bytes(Tail(b))

(***************************************************************************)
(* The process-wide generation number (src/vfs.rs 47-60)                   *)
(***************************************************************************)
VARIABLES
    now,                      \* SystemTime::now() in milliseconds
    GENERATION_NUMBER,        \* static mut GENERATION_NUMBER
    GENERATION_NUMBER_INIT    \* the Once has run

\* value returned by get_generation_number() in the current state
get_generation_number_mutant == now
get_generation_number ==
    IF GENERATION_NUMBER_INIT THEN GENERATION_NUMBER ELSE now

\* effect of get_generation_number() on the statics
GenTouched ==
    /\ GENERATION_NUMBER' = get_generation_number
    /\ GENERATION_NUMBER_INIT' = TRUE

GenUntouched == UNCHANGED <<GENERATION_NUMBER, GENERATION_NUMBER_INIT>>

(***************************************************************************)
(* NFSFileSystem::id_to_fh / fh_to_id (src/vfs.rs 248-268)                 *)
(***************************************************************************)
id_to_fh(id) == to_le_bytes(get_generation_number) \o to_le_bytes(id)

\* accepts any handle of at least 16 bytes
fh_to_id_mutant_len(fh) ==
    IF Len(fh) < 16 THEN Err("NFS3ERR_BADHANDLE")
    ELSE LET gen == from_le_bytes(SubSeq(fh, 1, 8))
             id == from_le_bytes(SubSeq(fh, 9, 16))
             gennum == get_generation_number
         IN  IF gen < gennum THEN Err("NFS3ERR_STALE")
             ELSE IF gen > gennum THEN Err("NFS3ERR_BADHANDLE")
             ELSE Ok(id)
\* answers every generation mismatch alike
fh_to_id_mutant_cmp(fh) ==
    IF Len(fh) # 16 THEN Err("NFS3ERR_BADHANDLE")
    ELSE LET gen == from_le_bytes(SubSeq(fh, 1, 8))
             id == from_le_bytes(SubSeq(fh, 9, 16))
             gennum == get_generation_number
         IN  IF gen # gennum THEN Err("NFS3ERR_STALE")
             ELSE Ok(id)
fh_to_id(fh) ==
    IF Len(fh) # 16 THEN Err("NFS3ERR_BADHANDLE")
    ELSE LET gen == from_le_bytes(SubSeq(fh, 1, 8))
             id == from_le_bytes(SubSeq(fh, 9, 16))
             gennum == get_generation_number
         IN  IF gen < gennum THEN Err("NFS3ERR_STALE")
             ELSE IF gen > gennum THEN Err("NFS3ERR_BADHANDLE")
             ELSE Ok(id)

(***************************************************************************)
(* RPC reply messages (src/rpc.rs 449-510).  A reply buffer is modelled as *)
(* the sequence of XDR items the handler serialized into it.               *)
(***************************************************************************)
RpcReply(xid, rs, st, ver) ==
    [t |-> "rpc_msg", xid |-> xid, reply_stat |-> rs, stat |-> st,
     low |-> ver, high |-> ver]

make_success_reply(xid) == RpcReply(xid, "MSG_ACCEPTED", "SUCCESS", 0)
proc_unavail_reply_message_mutant(xid) == RpcReply(xid, "MSG_ACCEPTED", "PROG_UNAVAIL", 0)
proc_unavail_reply_message(xid) == RpcReply(xid, "MSG_ACCEPTED", "PROC_UNAVAIL", 0)
prog_unavail_reply_message(xid) == RpcReply(xid, "MSG_ACCEPTED", "PROG_UNAVAIL", 0)
prog_mismatch_reply_message(xid, accepted_ver) ==
    RpcReply(xid, "MSG_ACCEPTED", "PROG_MISMATCH", accepted_ver)
garbage_args_reply_message_mutant(xid) == RpcReply(xid, "MSG_ACCEPTED", "SYSTEM_ERR", 0)
garbage_args_reply_message(xid) == RpcReply(xid, "MSG_ACCEPTED", "GARBAGE_ARGS", 0)
rpc_vers_mismatch(xid) == RpcReply(xid, "MSG_DENIED", "RPC_MISMATCH", 0)

(***************************************************************************)
(* NFS data types (src/nfs.rs).  fattr3 keeps the fields the engine reads. *)
(***************************************************************************)
nfstime3(s, n) == [seconds |-> s, nseconds |-> n]
fattr3(sz, m, c) == [size |-> sz, mtime |-> m, ctime |-> c]
NoAttr == fattr3(0, nfstime3(0, 0), nfstime3(0, 0))
wcc_attr(v) == [size |-> v.size, mtime |-> v.mtime, ctime |-> v.ctime]

nfsstat3(s) == [t |-> "nfsstat3", v |-> s]
fattr3_item(v) == [t |-> "fattr3", attr |-> v]
post_op_attr_Void == [t |-> "post_op_attr", follows |-> FALSE, attr |-> NoAttr]
post_op_attr_attributes(v) == [t |-> "post_op_attr", follows |-> TRUE, attr |-> v]
pre_op_attr_Void == [t |-> "pre_op_attr", follows |-> FALSE, attr |-> NoAttr]
pre_op_attr_attributes(v) == [t |-> "pre_op_attr", follows |-> TRUE, attr |-> v]
\* wcc_data serializes `before` then `after` (XDRStruct, src/nfs.rs 366-370)
wcc_data(before, after) == <<before, after>>
wcc_data_default == wcc_data(pre_op_attr_Void, post_op_attr_Void)
nfs_fh3_item(fh) == [t |-> "nfs_fh3", data |-> fh]
post_op_fh3_handle(fh) == [t |-> "post_op_fh3", follows |-> TRUE, data |-> fh]
u32_item(x) == [t |-> "u32", v |-> x]
bool_item(b) == [t |-> "bool", v |-> b]
opaque_item(bytes) == [t |-> "opaque", data |-> bytes]
cookieverf3_item(x) == [t |-> "cookieverf3", v |-> x]
struct_item(name, val) == [t |-> name, v |-> val]

\* `match getattr(..) { Ok(v) => post_op_attr::attributes(v), Err(_) => Void }`
PostOp(r) == IF r.ok THEN post_op_attr_attributes(r.val) ELSE post_op_attr_Void
PreOp(r) == IF r.ok THEN pre_op_attr_attributes(wcc_attr(r.val)) ELSE pre_op_attr_Void

(***************************************************************************)
(* Outcome of a handler: Result<(), anyhow::Error>, the bytes it put into  *)
(* the reply buffer, and the back-end file operations it awaited.          *)
(***************************************************************************)
Done(out, be) == [err |-> FALSE, panic |-> FALSE, out |-> out, backend |-> be]
Fail(out, be) == [err |-> TRUE, panic |-> FALSE, out |-> out, backend |-> be]
Panic(out, be) == [err |-> FALSE, panic |-> TRUE, out |-> out, backend |-> be]
B(op, id) == [op |-> op, id |-> id]
\* a back-end call together with the attributes handed to it
BA(op, id, arg) == [op |-> op, id |-> id, arg |-> arg]
\* a back-end call together with the value it returned
BR(op, id, ret) == [op |-> op, id |-> id, ret |-> ret]

\* `matches!(context.vfs.capabilities(), VFSCapabilities::ReadWrite)`
ReadWrite_mutant(caps) == TRUE
ReadWrite(caps) == caps = "ReadWrite"

(***************************************************************************)
(* Read-side procedures (src/nfs_handlers.rs)                              *)
(***************************************************************************)
nfsproc3_null(xid) == Done(<<make_success_reply(xid)>>, <<>>)

nfsproc3_getattr(xid, a, o) ==
    IF ~a.decodes THEN Fail(<<>>, <<>>)
    ELSE LET id == fh_to_id(a.fh) IN
    IF ~id.ok THEN Done(<<make_success_reply(xid), nfsstat3(id.err)>>, <<>>)
    ELSE IF o.ga1.ok
         THEN Done(<<make_success_reply(xid), nfsstat3("NFS3_OK"),
                     fattr3_item(o.ga1.val)>>, <<B("getattr", id.val)>>)
         ELSE Done(<<make_success_reply(xid), nfsstat3(o.ga1.err)>>,
                   <<B("getattr", id.val)>>)

nfsproc3_lookup(xid, a, o) ==
    IF ~a.decodes THEN Fail(<<>>, <<>>)
    ELSE LET dirid == fh_to_id(a.fh) IN
    IF ~dirid.ok
    THEN Done(<<make_success_reply(xid), nfsstat3(dirid.err), post_op_attr_Void>>, <<>>)
    ELSE LET dir_attr == PostOp(o.ga1) IN
         IF o.res.ok
         THEN Done(<<make_success_reply(xid), nfsstat3("NFS3_OK"),
                     nfs_fh3_item(id_to_fh(o.res.val)), PostOp(o.ga2), dir_attr>>,
                   <<B("getattr", dirid.val), B("lookup", dirid.val),
                     B("getattr", o.res.val)>>)
         ELSE Done(<<make_success_reply(xid), nfsstat3(o.res.err), dir_attr>>,
                   <<B("getattr", dirid.val), B("lookup", dirid.val)>>)

\* o.res.val is the (bytes, eof) pair returned by the back-end read
nfsproc3_read(xid, a, o) ==
    IF ~a.decodes THEN Fail(<<>>, <<>>)
    ELSE LET id == fh_to_id(a.fh) IN
    IF ~id.ok
    THEN Done(<<make_success_reply(xid), nfsstat3(id.err), post_op_attr_Void>>, <<>>)
    ELSE LET obj_attr == PostOp(o.ga1)
             be == <<B("getattr", id.val), B("read", id.val)>> IN
         IF o.res.ok
         THEN Done(<<make_success_reply(xid), nfsstat3("NFS3_OK"),
                     struct_item("READ3resok",
                        [file_attributes |-> obj_attr,
                         count |-> Len(o.res.val.bytes),
                         eof |-> o.res.val.eof,
                         data |-> o.res.val.bytes])>>, be)
         ELSE Done(<<make_success_reply(xid), nfsstat3(o.res.err), obj_attr>>, be)

\* FSINFO, PATHCONF and FSSTAT share one shape: handle, getattr, constants
FSINFO3resok(dir_attr) ==
    [obj_attributes |-> dir_attr, rtmax |-> 1024 * 1024, rtpref |-> 1024 * 124,
     rtmult |-> 1024 * 1024, wtmax |-> 1024 * 1024, wtpref |-> 1024 * 1024,
     wtmult |-> 1024 * 1024, dtpref |-> 1024 * 1024,
     maxfilesize_gib |-> 128, time_delta |-> nfstime3(0, 1000000),
     properties |-> {"FSF_SYMLINK", "FSF_HOMOGENEOUS", "FSF_CANSETTIME"}]

PATHCONF3resok(obj_attr) ==
    [obj_attributes |-> obj_attr, linkmax |-> 0, name_max |-> 32768,
     no_trunc |-> TRUE, chown_restricted |-> TRUE,
     case_insensitive |-> FALSE, case_preserving |-> TRUE]

FSSTAT3resok(obj_attr) ==
    [obj_attributes |-> obj_attr, tbytes_gib |-> 1024, fbytes_gib |-> 1024,
     abytes_gib |-> 1024, tfiles |-> 1024 * 1024 * 1024,
     ffiles |-> 1024 * 1024 * 1024, afiles |-> 1024 * 1024 * 1024]

StaticInfo(xid, a, o, name, resok) ==
    IF ~a.decodes THEN Fail(<<>>, <<>>)
    ELSE LET id == fh_to_id(a.fh) IN
    IF ~id.ok
    THEN Done(<<make_success_reply(xid), nfsstat3(id.err), post_op_attr_Void>>, <<>>)
    ELSE Done(<<make_success_reply(xid), nfsstat3("NFS3_OK"),
                struct_item(name, resok)>>, <<B("getattr", id.val)>>)

nfsproc3_fsinfo(xid, a, o) ==
    StaticInfo(xid, a, o, "FSINFO3resok", FSINFO3resok(PostOp(o.ga1)))
nfsproc3_pathconf(xid, a, o) ==
    StaticInfo(xid, a, o, "PATHCONF3resok", PATHCONF3resok(PostOp(o.ga1)))
nfsproc3_fsstat(xid, a, o) ==
    StaticInfo(xid, a, o, "FSSTAT3resok", FSSTAT3resok(PostOp(o.ga1)))

\* a.access is the requested mask, as a set of ACCESS3_* bit names
nfsproc3_access(xid, a, o, caps) ==
    IF ~a.decodes THEN Fail(<<>>, <<>>)
    ELSE LET id == fh_to_id(a.fh) IN
    IF ~id.ok
    THEN Done(<<make_success_reply(xid), nfsstat3(id.err), post_op_attr_Void>>, <<>>)
    ELSE LET access == IF ~ReadWrite(caps)
                       THEN a.access \cap {"ACCESS3_READ", "ACCESS3_LOOKUP"}
                       ELSE a.access IN
         Done(<<make_success_reply(xid), nfsstat3("NFS3_OK"), PostOp(o.ga1),
                struct_item("access", access)>>, <<B("getattr", id.val)>>)

nfsproc3_readlink(xid, a, o) ==
    IF ~a.decodes THEN Fail(<<>>, <<>>)
    ELSE LET id == fh_to_id(a.fh) IN
    IF ~id.ok THEN Done(<<make_success_reply(xid), nfsstat3(id.err)>>, <<>>)
    ELSE IF ~o.ga1.ok
    THEN Done(<<make_success_reply(xid), nfsstat3(o.ga1.err), post_op_attr_Void>>,
              <<B("getattr", id.val)>>)
    ELSE LET symlink_attr == post_op_attr_attributes(o.ga1.val)
             be == <<B("getattr", id.val), B("readlink", id.val)>> IN
         IF o.res.ok
         THEN Done(<<make_success_reply(xid), nfsstat3("NFS3_OK"), symlink_attr,
                     opaque_item(o.res.val)>>, be)
         ELSE Done(<<make_success_reply(xid), nfsstat3(o.res.err), symlink_attr>>, be)

(***************************************************************************)
(* Mutating procedures (src/nfs_handlers.rs).  Each starts with the        *)
(* capability gate, before its arguments are deserialized.                 *)
(***************************************************************************)
ROFS(xid) ==
    Done(<<make_success_reply(xid), nfsstat3("NFS3ERR_ROFS")>> \o wcc_data_default, <<>>)

\* reply made of the accepted header, a status and one wcc_data
WccReply(xid, stat, wcc) == <<make_success_reply(xid), nfsstat3(stat)>> \o wcc

\* a.count is args.count, a.datalen is args.data.len()
nfsproc3_write(xid, a, o, caps) ==
    IF ~ReadWrite(caps) THEN ROFS(xid)
    ELSE IF ~a.decodes THEN Fail(<<>>, <<>>)
    ELSE IF a.datalen # a.count THEN Done(<<garbage_args_reply_message(xid)>>, <<>>)
    ELSE LET id == fh_to_id(a.fh) IN
    IF ~id.ok THEN Done(WccReply(xid, id.err, wcc_data_default), <<>>)
    ELSE LET pre_obj_attr == PreOp(o.ga1)
             be == <<B("getattr", id.val), B("write", id.val)>> IN
         IF o.res.ok
         THEN Done(<<make_success_reply(xid), nfsstat3("NFS3_OK"),
                     struct_item("WRITE3resok",
                        [file_wcc |-> wcc_data(pre_obj_attr,
                                               post_op_attr_attributes(o.res.val)),
                         count |-> a.count,
                         committed |-> "FILE_SYNC",
                         verf |-> to_le_bytes(get_generation_number)])>>, be)
         ELSE Done(WccReply(xid, o.res.err, wcc_data_default), be)

\* a.mode is the createmode3; a.how_decodes tells whether the sattr3 that
\* follows the mode deserializes; o.lookup is the GUARDED lookup; o.res.val
\* is the (fileid, fattr3) pair of create, or the fileid of create_exclusive
\* createmode3::GUARDED and `context.vfs.lookup(dirid, &dirops.name).await.is_ok()`
guarded_exists_mutant(mode, lookup) == FALSE
guarded_exists(mode, lookup) == mode = "GUARDED" /\ lookup.ok

nfsproc3_create(xid, a, o, caps) ==
    IF ~ReadWrite(caps) THEN ROFS(xid)
    ELSE IF ~a.decodes THEN Fail(<<>>, <<>>)
    ELSE LET dirid == fh_to_id(a.fh) IN
    IF ~dirid.ok THEN Done(WccReply(xid, dirid.err, wcc_data_default), <<>>)
    ELSE IF ~o.ga1.ok
    THEN Done(WccReply(xid, o.ga1.err, wcc_data_default), <<B("getattr", dirid.val)>>)
    ELSE LET d == dirid.val
             pre_dir_attr == PreOp(o.ga1) IN
    IF a.mode # "EXCLUSIVE" /\ ~a.how_decodes THEN Fail(<<>>, <<B("getattr", d)>>)
    ELSE IF guarded_exists(a.mode, o.lookup)
    THEN Done(WccReply(xid, "NFS3ERR_EXIST", wcc_data(pre_dir_attr, PostOp(o.ga2))),
              <<B("getattr", d), B("lookup", d), B("getattr", d)>>)
    ELSE LET look == IF a.mode = "GUARDED" THEN <<B("lookup", d)>> ELSE <<>>
             op == IF a.mode = "EXCLUSIVE" THEN "create_exclusive" ELSE "create"
             postopattr == IF a.mode = "EXCLUSIVE" \/ ~o.res.ok
                           THEN post_op_attr_Void
                           ELSE post_op_attr_attributes(o.res.val.attr)
             wcc_res == wcc_data(pre_dir_attr, PostOp(o.ga2))
             \* create takes target_attributes, create_exclusive none
             mutation == IF a.mode = "EXCLUSIVE" THEN B(op, d) ELSE BA(op, d, a.sattr)
             be == <<B("getattr", d)>> \o look \o <<mutation, B("getattr", d)>> IN
         IF o.res.ok
         THEN Done(<<make_success_reply(xid), nfsstat3("NFS3_OK"),
                     post_op_fh3_handle(id_to_fh(o.res.val.id)), postopattr>>
                   \o wcc_res, be)
         ELSE Done(WccReply(xid, o.res.err, wcc_res), be)

\* a.guard is "Void", "match" or "mismatch": the sattrguard3 against the
\* ctime read by the pre-op getattr
nfsproc3_setattr(xid, a, o, caps) ==
    IF ~ReadWrite(caps) THEN ROFS(xid)
    ELSE IF ~a.decodes THEN Fail(<<>>, <<>>)
    ELSE LET id == fh_to_id(a.fh) IN
    IF ~id.ok THEN Done(<<make_success_reply(xid), nfsstat3(id.err)>>, <<>>)
    ELSE IF ~o.ga1.ok
    THEN Done(WccReply(xid, o.ga1.err, wcc_data_default), <<B("getattr", id.val)>>)
    ELSE LET pre_op_attr == PreOp(o.ga1)
             \* the guard arm writes a reply and falls through to setattr
             guarded == IF a.guard = "mismatch"
                        THEN WccReply(xid, "NFS3ERR_NOT_SYNC", wcc_data_default)
                        ELSE <<>>
             be == <<B("getattr", id.val), B("setattr", id.val)>> IN
         IF o.res.ok
         THEN Done(guarded \o WccReply(xid, "NFS3_OK",
                       wcc_data(pre_op_attr, post_op_attr_attributes(o.res.val))), be)
         ELSE Done(guarded \o WccReply(xid, o.res.err, wcc_data_default), be)

\* REMOVE and RMDIR (handle_nfs routes both here)
nfsproc3_remove(xid, a, o, caps) ==
    IF ~ReadWrite(caps) THEN ROFS(xid)
    ELSE IF ~a.decodes THEN Fail(<<>>, <<>>)
    ELSE LET dirid == fh_to_id(a.fh) IN
    IF ~dirid.ok THEN Done(WccReply(xid, dirid.err, wcc_data_default), <<>>)
    ELSE IF ~o.ga1.ok
    THEN Done(WccReply(xid, o.ga1.err, wcc_data_default), <<B("getattr", dirid.val)>>)
    ELSE LET d == dirid.val
             wcc_res == wcc_data(PreOp(o.ga1), PostOp(o.ga2))
             be == <<B("getattr", d), B("remove", d), B("getattr", d)>> IN
         Done(WccReply(xid, IF o.res.ok THEN "NFS3_OK" ELSE o.res.err, wcc_res), be)

\* a.fh is the from-directory handle, a.fh2 the to-directory handle
nfsproc3_rename(xid, a, o, caps) ==
    IF ~ReadWrite(caps) THEN ROFS(xid)
    ELSE IF ~a.decodes THEN Fail(<<>>, <<>>)
    ELSE LET from_dirid == fh_to_id(a.fh)
             to_dirid == fh_to_id(a.fh2) IN
    IF ~from_dirid.ok THEN Done(WccReply(xid, from_dirid.err, wcc_data_default), <<>>)
    ELSE IF ~to_dirid.ok THEN Done(WccReply(xid, to_dirid.err, wcc_data_default), <<>>)
    ELSE LET f == from_dirid.val
             t == to_dirid.val IN
    IF ~o.ga1.ok
    THEN Done(WccReply(xid, o.ga1.err, wcc_data_default), <<B("getattr", f)>>)
    ELSE IF ~o.ga2.ok
    THEN Done(WccReply(xid, o.ga2.err, wcc_data_default),
              <<B("getattr", f), B("getattr", t)>>)
    ELSE LET from_wcc_res == wcc_data(PreOp(o.ga1), PostOp(o.ga3))
             to_wcc_res == wcc_data(PreOp(o.ga2), PostOp(o.ga4))
             be == <<B("getattr", f), B("getattr", t), B("rename", f),
                     B("getattr", f), B("getattr", t)>> IN
         Done(WccReply(xid, IF o.res.ok THEN "NFS3_OK" ELSE o.res.err, from_wcc_res)
              \o to_wcc_res, be)

\* MKDIR and SYMLINK share one shape; op is the back-end call
MakeNode(xid, a, o, caps, op) ==
    IF ~ReadWrite(caps) THEN ROFS(xid)
    ELSE IF ~a.decodes THEN Fail(<<>>, <<>>)
    ELSE LET dirid == fh_to_id(a.fh) IN
    IF ~dirid.ok THEN Done(WccReply(xid, dirid.err, wcc_data_default), <<>>)
    ELSE IF ~o.ga1.ok
    THEN Done(WccReply(xid, o.ga1.err, wcc_data_default), <<B("getattr", dirid.val)>>)
    ELSE LET d == dirid.val
             wcc_res == wcc_data(PreOp(o.ga1), PostOp(o.ga2))
             be == <<B("getattr", d), B(op, d), B("getattr", d)>> IN
         IF o.res.ok
         THEN Done(<<make_success_reply(xid), nfsstat3("NFS3_OK"),
                     post_op_fh3_handle(id_to_fh(o.res.val.id)),
                     post_op_attr_attributes(o.res.val.attr)>> \o wcc_res, be)
         ELSE Done(WccReply(xid, o.res.err, wcc_res), be)

nfsproc3_mkdir(xid, a, o, caps) == MakeNode(xid, a, o, caps, "mkdir")
nfsproc3_symlink(xid, a, o, caps) == MakeNode(xid, a, o, caps, "symlink")

(***************************************************************************)
(* Encoded sizes (src/xdr.rs): what WriteCounter::write adds to its count  *)
(* for each serialized item (src/write_counter.rs 32-38).                  *)
(***************************************************************************)
\* stands for 2^64, the modulus of usize arithmetic; every byte count of
\* the model stays far below it
UsizeModulus == 1073741824

Pad4(n) == n + ((4 - (n % 4)) % 4)
\* Vec<u8>: 4-byte length, payload, zero padding
OpaqueLen(n) == 4 + Pad4(n)
\* xid, msg_type, reply_stat, verf (flavor, empty body), accept_stat
SuccessReplyLen == 24
Fattr3Len == 84
\* size, mtime, ctime
WccAttrLen == 24
PostOpAttrLen(item) == IF item.follows THEN 4 + Fattr3Len ELSE 4
\* bool marker, fileid, name, cookie
Entry3Len(e) == 4 + 8 + OpaqueLen(Len(e.name)) + 8
\* ... plus post_op_attr::attributes and post_op_fh3::handle of 16 bytes
EntryPlus3Len(e) == Entry3Len(e) + (4 + Fattr3Len) + (4 + OpaqueLen(16))

XdrLen(item) ==
    CASE item.t = "rpc_msg" ->
            IF item.stat = "PROG_MISMATCH" THEN SuccessReplyLen + 8 ELSE SuccessReplyLen
      [] item.t = "nfsstat3" -> 4
      [] item.t = "mountstat3" -> 4
      [] item.t = "u32" -> 4
      [] item.t = "fattr3" -> Fattr3Len
      [] item.t = "pre_op_attr" -> IF item.follows THEN 4 + WccAttrLen ELSE 4
      [] item.t = "opaque" -> OpaqueLen(Len(item.data))
      [] item.t = "post_op_attr" -> PostOpAttrLen(item)
      [] item.t = "cookieverf3" -> 8
      [] item.t = "bool" -> 4
      [] item.t = "entry3" -> Entry3Len(item)
      [] item.t = "entryplus3" -> EntryPlus3Len(item)

RECURSIVE bytes_written(_)
bytes_written(out) ==
    IF out = <<>> THEN 0 ELSE XdrLen(Head(out)) + bytes_written(Tail(out))

(***************************************************************************)
(* Back-end readdir, as the mirror file system implements it               *)
(* (src/examples/mirrorfs.rs 409-463): children is the BTreeSet of the     *)
(* directory, in increasing fileid order.                                  *)
(***************************************************************************)
Min(a, b) == IF a < b THEN a ELSE b

readdir(children, start_after, max_entries) ==
    LET rest == SelectSeq(children, LAMBDA e : start_after = 0 \/ e.fileid > start_after)
        remaining_length == Len(rest)
        \* an entry is pushed before the length test, so one entry is
        \* returned even when max_entries is 0
        n == IF remaining_length = 0 THEN 0
             ELSE IF max_entries = 0 THEN 1
             ELSE Min(remaining_length, max_entries)
    IN  [entries |-> SubSeq(rest, 1, n), end |-> n = remaining_length]

\* NFSFileSystem::readdir_simple (src/vfs.rs 193-201): readdir from 0
readdir_simple(children, count) == readdir(children, 0, count)

(***************************************************************************)
(* READDIRPLUS and READDIR (src/nfs_handlers.rs 852-1162)                  *)
(***************************************************************************)
\* (mtime.seconds << 32 | mtime.nseconds).to_be_bytes(), kept as its halves
dirversion_mutant(ga) == [hi |-> 0, lo |-> 0]
dirversion(ga) ==
    IF ga.ok THEN [hi |-> ga.val.mtime.seconds, lo |-> ga.val.mtime.nseconds]
    ELSE [hi |-> 0, lo |-> 0]

entryplus3(e) ==
    [t |-> "entryplus3", fileid |-> e.fileid, name |-> e.name, cookie |-> e.fileid,
     name_attributes |-> post_op_attr_attributes(e.attr),
     name_handle |-> post_op_fh3_handle(id_to_fh(e.fileid))]
entry3(e) ==
    [t |-> "entry3", fileid |-> e.fileid, name |-> e.name, cookie |-> e.fileid]

\* per-entry share of dircount: fileid, u32, name bytes, cookie
added_dircount(e) == 8 + 4 + Len(e.name) + 8

\* number of leading entries the READDIRPLUS loop commits before it breaks
RECURSIVE PlusCommitted(_, _, _, _, _)
PlusCommitted(entries, written, accumulated_dircount, max_bytes_allowed, max_dircount_bytes) ==
    IF entries = <<>> THEN 0
    ELSE LET e == Head(entries) IN
         IF /\ EntryPlus3Len(e) + written < max_bytes_allowed
            /\ added_dircount(e) + accumulated_dircount < max_dircount_bytes
         THEN 1 + PlusCommitted(Tail(entries), written + EntryPlus3Len(e),
                                accumulated_dircount + added_dircount(e),
                                max_bytes_allowed, max_dircount_bytes)
         ELSE 0

\* number of leading entries the READDIR loop commits before it breaks
RECURSIVE SimpleCommitted(_, _, _)
SimpleCommitted(entries, written, max_bytes_allowed) ==
    IF entries = <<>> THEN 0
    ELSE LET e == Head(entries) IN
         IF Entry3Len(e) + written < max_bytes_allowed
         THEN 1 + SimpleCommitted(Tail(entries), written + Entry3Len(e),
                                  max_bytes_allowed)
         ELSE 0

\* the eof flag written after the entry list
EofFlag_mutant(all_entries_written, end) == end
EofFlag(all_entries_written, end) == IF all_entries_written THEN end ELSE FALSE

\* o.dir is the directory as the back-end holds it: Ok(children) or Err;
\* checks tells whether the build traps integer overflow
nfsproc3_readdirplus(xid, a, o, checks) ==
    IF ~a.decodes THEN Fail(<<>>, <<>>)
    ELSE LET dirid == fh_to_id(a.fh) IN
    IF ~dirid.ok
    THEN Done(<<make_success_reply(xid), nfsstat3(dirid.err), post_op_attr_Void>>, <<>>)
    ELSE LET d == dirid.val
             dir_attr == PostOp(o.ga1) IN
    IF a.maxcount < 128 /\ checks THEN Panic(<<>>, <<B("getattr", d)>>)
    ELSE LET max_bytes_allowed == (a.maxcount - 128) % UsizeModulus
             estimated_max_results == a.dircount \div 16
             max_dircount_bytes == a.dircount
             be == <<B("getattr", d), B("readdir", d)>> IN
    IF ~o.dir.ok
    THEN Done(<<make_success_reply(xid), nfsstat3(o.dir.err), dir_attr>>, be)
    ELSE LET result == readdir(o.dir.val, a.cookie, estimated_max_results)
             head == <<make_success_reply(xid), nfsstat3("NFS3_OK"), dir_attr,
                       cookieverf3_item(dirversion(o.ga1))>>
             ctr == PlusCommitted(result.entries, bytes_written(head), 0,
                                  max_bytes_allowed, max_dircount_bytes)
             all_entries_written == ctr = Len(result.entries) IN
         Done(head
              \o [k \in 1..ctr |-> entryplus3(result.entries[k])]
              \o <<bool_item(FALSE),
                   bool_item(EofFlag(all_entries_written, result.end))>>,
              <<B("getattr", d), BR("readdir", d, result)>>)

nfsproc3_readdir(xid, a, o, checks) ==
    IF ~a.decodes THEN Fail(<<>>, <<>>)
    ELSE LET dirid == fh_to_id(a.fh) IN
    IF ~dirid.ok
    THEN Done(<<make_success_reply(xid), nfsstat3(dirid.err), post_op_attr_Void>>, <<>>)
    ELSE LET d == dirid.val
             dir_attr == PostOp(o.ga1) IN
    IF a.dircount < 128 /\ checks THEN Panic(<<>>, <<B("getattr", d)>>)
    ELSE LET max_bytes_allowed == (a.dircount - 128) % UsizeModulus
             estimated_max_results == a.dircount \div 16
             be == <<B("getattr", d), B("readdir", d)>> IN
    IF ~o.dir.ok
    THEN Done(<<make_success_reply(xid), nfsstat3(o.dir.err), dir_attr>>, be)
    ELSE LET result == readdir_simple(o.dir.val, estimated_max_results)
             head == <<make_success_reply(xid), nfsstat3("NFS3_OK"), dir_attr,
                       cookieverf3_item(dirversion(o.ga1))>>
             ctr == SimpleCommitted(result.entries, bytes_written(head),
                                    max_bytes_allowed)
             all_entries_written == ctr = Len(result.entries) IN
         Done(head
              \o [k \in 1..ctr |-> entry3(result.entries[k])]
              \o <<bool_item(FALSE),
                   bool_item(EofFlag(all_entries_written, result.end))>>,
              <<B("getattr", d), BR("readdir", d, result)>>)

(***************************************************************************)
(* handle_nfs (src/nfs_handlers.rs 116-166)                                *)
(***************************************************************************)
NFS_VERSION == 3

handle_nfs(xid, vers, proc, a, o, caps, checks) ==
    IF vers # NFS_VERSION
    THEN Done(<<prog_mismatch_reply_message(xid, NFS_VERSION)>>, <<>>)
    ELSE CASE proc = 0 -> nfsproc3_null(xid)
           [] proc = 1 -> nfsproc3_getattr(xid, a, o)
           [] proc = 2 -> nfsproc3_setattr(xid, a, o, caps)
           [] proc = 3 -> nfsproc3_lookup(xid, a, o)
           [] proc = 4 -> nfsproc3_access(xid, a, o, caps)
           [] proc = 5 -> nfsproc3_readlink(xid, a, o)
           [] proc = 6 -> nfsproc3_read(xid, a, o)
           [] proc = 7 -> nfsproc3_write(xid, a, o, caps)
           [] proc = 8 -> nfsproc3_create(xid, a, o, caps)
           [] proc = 9 -> nfsproc3_mkdir(xid, a, o, caps)
           [] proc = 10 -> nfsproc3_symlink(xid, a, o, caps)
           [] proc = 12 -> nfsproc3_remove(xid, a, o, caps)
           [] proc = 13 -> nfsproc3_remove(xid, a, o, caps)
           [] proc = 14 -> nfsproc3_rename(xid, a, o, caps)
           [] proc = 16 -> nfsproc3_readdir(xid, a, o, checks)
           [] proc = 17 -> nfsproc3_readdirplus(xid, a, o, checks)
           [] proc = 18 -> nfsproc3_fsstat(xid, a, o)
           [] proc = 19 -> nfsproc3_fsinfo(xid, a, o)
           [] proc = 20 -> nfsproc3_pathconf(xid, a, o)
           [] OTHER -> Done(<<proc_unavail_reply_message(xid)>>, <<>>)

\* WRITE, CREATE, MKDIR, SYMLINK, REMOVE, RMDIR, RENAME, SETATTR
MutatingProcs == {2, 7, 8, 9, 10, 12, 13, 14}
\* procedures whose arguments start with a file handle
HandleProcs == (1..20) \ {11, 15}

\* whether the handler reaches get_generation_number(): fh_to_id returns
\* BADHANDLE on a wrong length before it reads the generation number
ReadsGeneration(vers, proc, a, caps) ==
    /\ vers = NFS_VERSION
    /\ proc \in HandleProcs
    /\ proc \in MutatingProcs => ReadWrite(caps)
    /\ a.decodes
    /\ proc = 7 => a.datalen = a.count
    /\ \/ Len(a.fh) = 16
       \/ proc = 14 /\ Len(a.fh2) = 16

(***************************************************************************)
(* State of the NFS procedure model                                        *)
(***************************************************************************)
VARIABLES
    capabilities,     \* what the back-end's capabilities() returns
    overflow_checks,  \* the build traps integer overflow (debug profile)
    pc,               \* "idle", or "replied" once a call was processed
    call              \* the call processed last and its outcome

VARIABLES
    minted,           \* handles returned by id_to_fh so far, with their ids
    parsed            \* the handle parsed last by fh_to_id, and the result

VARIABLES
    dir,              \* the children of the exported directory, by fileid
    chain             \* a client's enumeration: next cookie, entries seen

nfsVars == <<capabilities, overflow_checks, pc, call>>
fhVars == <<minted, parsed>>
VARIABLES
    client_sent,            \* number of requests the client has sent
    client_closed,          \* the client has shut down its sending side
    socket_in,              \* fragments sent and not yet read by try_read
    socket_receive_channel, \* the duplex stream between socket and reader
    cur_fragment,           \* SocketMessageHandler::cur_fragment
    tasks,                  \* records handed to spawned workers, not yet run
    msgrecvchan,            \* the unbounded reply queue
    enqueued,               \* every message ever sent on the reply queue
    writing,                \* reply whose header is written, data is not
    socket_out,             \* what the server wrote to the socket
    socket_ok,              \* the peer has not reset the connection
    closed                  \* "open", or why process_socket returned

VARIABLES
    listener,               \* handle_forever: "accepting", or how it ended
    backlog,                \* connections made and not yet accepted
    spawned,                \* the process_socket tasks spawned so far
    file,                   \* the regular file of the mirror back-end
    mount_signal,           \* RPCContext::mount_signal: "None", "Some", or
                            \* "Closed" for a sender whose receiver is gone
    sink,                   \* the values the mount-event receiver was sent
    mount_log,              \* the mount-program calls answered so far
    wire,                   \* the last use of the XDR codec or the record
                            \* marking: what went in and what came out
    binding,                \* NFSTcpListener::bind: its argument and progress
    live,                   \* the tasks of one connection: the loop of
                            \* process_socket, the reader, the workers
    race,                   \* tasks of the process that run concurrently
                            \* and the position of each
    fsmap                   \* the tables of the mirror back-end's FSMap

dirVars == <<dir, chain>>
listenVars == <<listener, backlog, spawned>>
fileVars == <<file>>
mountVars == <<mount_signal, sink, mount_log>>
extVars == <<wire, binding, live, race, fsmap>>
connVars == <<client_sent, client_closed, socket_in, socket_receive_channel,
              cur_fragment, tasks, msgrecvchan, enqueued, writing, socket_out,
              socket_ok, closed>>
vars == <<now, GENERATION_NUMBER, GENERATION_NUMBER_INIT, capabilities,
          overflow_checks, pc, call, minted, parsed, dir, chain,
          client_sent, client_closed, socket_in, socket_receive_channel,
          cur_fragment, tasks, msgrecvchan, enqueued, writing, socket_out,
          socket_ok, closed, listener, backlog, spawned, file,
          mount_signal, sink, mount_log, wire, binding, live, race, fsmap>>

(***************************************************************************)
(* Inputs a client can send                                                *)
(***************************************************************************)
XidInputs == {7, 9}
FileIds == 1..MaxFileId
\* generation fields a handle may carry: older, live and newer values
GenInputs == (StartMs - 1)..(StartMs + MaxTicks + 1)
MakeFh(gen, id) == to_le_bytes(gen) \o to_le_bytes(id)
WellFormedFhs == {MakeFh(g, 1) : g \in GenInputs}
MalformedFhs == {<<>>, SubSeq(MakeFh(StartMs, 1), 1, 15), MakeFh(StartMs, 1) \o <<0>>}
FhInputs == WellFormedFhs \cup MalformedFhs

A1 == fattr3(5, nfstime3(10, 0), nfstime3(10, 0))
A2 == fattr3(8, nfstime3(11, 500), nfstime3(12, 0))
GetattrResults == {Ok(A1), Err("NFS3ERR_IO")}
PostResults == {Ok(A2), Err("NFS3ERR_IO")}
IdResults == {Ok(MaxFileId), Err("NFS3ERR_NOENT")}
NodeResults == {Ok([id |-> MaxFileId, attr |-> A2]), Err("NFS3ERR_IO")}
AttrResults == {Ok(A2), Err("NFS3ERR_IO")}
UnitResults == {Ok(0), Err("NFS3ERR_NOENT")}
ReadResults == {Ok([bytes |-> <<1, 2>>, eof |-> TRUE]), Err("NFS3ERR_IO")}
PathResults == {Ok(<<47, 97>>), Err("NFS3ERR_BADTYPE")}
SmallDir == <<[fileid |-> 1, name |-> <<97>>, attr |-> A1],
              [fileid |-> 2, name |-> <<98, 99>>, attr |-> A2]>>
DirResults == {Ok(SmallDir), Err("NFS3ERR_NOTDIR")}

\* the programs handle_rpc serves and the versions they are served at
NFS_PROGRAM == 100003
PORTMAP_PROGRAM == 100000
PORTMAP_VERSION == 2
MOUNT_PROGRAM == 100005
MOUNT_VERSION == 3

\* nfs::sattr3::default(): every field left as it is
sattr3_default == [set_mode |-> FALSE, mode |-> 0, set_size |-> FALSE, size |-> 0]
NoArgs ==
    [decodes |-> TRUE, fh |-> <<>>, fh2 |-> <<>>, count |-> 0, datalen |-> 0,
     mode |-> "UNCHECKED", how_decodes |-> TRUE, guard |-> "Void",
     access |-> {}, cookie |-> 0, dircount |-> 0, maxcount |-> 0, offset |-> 0,
     cookieverf |-> [hi |-> 0, lo |-> 0], sattr |-> sattr3_default]
NoOracle ==
    [ga1 |-> Err("NFS3ERR_IO"), ga2 |-> Err("NFS3ERR_IO"), ga3 |-> Err("NFS3ERR_IO"),
     ga4 |-> Err("NFS3ERR_IO"), res |-> Err("NFS3ERR_IO"),
     lookup |-> Err("NFS3ERR_IO"), dir |-> Err("NFS3ERR_IO")]
NoCall ==
    [xid |-> 0, prog |-> 0, vers |-> 0, proc |-> 0, a |-> NoArgs,
     res |-> Done(<<>>, <<>>), gennum |-> 0, o |-> NoOracle]

\* one worker runs handle_nfs on a decoded call
Serve(xid, vers, proc, a, o) ==
    /\ pc = "idle"
    /\ pc' = "replied"
    /\ call' = [xid |-> xid, prog |-> NFS_PROGRAM, vers |-> vers, proc |-> proc,
                a |-> a,
                res |-> handle_nfs(xid, vers, proc, a, o, capabilities,
                                   overflow_checks),
                gennum |-> get_generation_number, o |-> o]
    /\ IF ReadsGeneration(vers, proc, a, capabilities)
       THEN GenTouched ELSE GenUntouched
    /\ UNCHANGED <<now, capabilities, overflow_checks>>
    /\ UNCHANGED fhVars
    /\ UNCHANGED <<connVars, listenVars, fileVars, mountVars, extVars>>

\* a call outside a directory enumeration
ServeNfs(xid, vers, proc, a, o) ==
    /\ Serve(xid, vers, proc, a, o)
    /\ UNCHANGED dirVars

Decodes == BOOLEAN

CallNull ==
    /\ pc = "idle"
    /\ \E xid \in XidInputs, vers \in {2, 3} : ServeNfs(xid, vers, 0, NoArgs, NoOracle)

CallUnavailable ==
    /\ pc = "idle"
    /\ \E xid \in XidInputs, proc \in {11, 15, 21, 22} :
        ServeNfs(xid, NFS_VERSION, proc, NoArgs, NoOracle)

\* GETATTR, ACCESS, FSSTAT, FSINFO, PATHCONF: a handle and one getattr
CallGetattr ==
    /\ pc = "idle"
    /\ \E xid \in XidInputs, fh \in FhInputs, dec \in Decodes, ga1 \in GetattrResults :
        ServeNfs(xid, NFS_VERSION, 1, [NoArgs EXCEPT !.fh = fh, !.decodes = dec],
              [NoOracle EXCEPT !.ga1 = ga1])

CallAccess ==
    /\ pc = "idle"
    /\ \E xid \in XidInputs, fh \in FhInputs, dec \in Decodes, ga1 \in GetattrResults,
       acc \in {{"ACCESS3_READ"}, {"ACCESS3_READ", "ACCESS3_MODIFY"}} :
        ServeNfs(xid, NFS_VERSION, 4,
              [NoArgs EXCEPT !.fh = fh, !.decodes = dec, !.access = acc],
              [NoOracle EXCEPT !.ga1 = ga1])

CallStatic ==
    /\ pc = "idle"
    /\ \E xid \in XidInputs, proc \in {18, 19, 20}, fh \in FhInputs, dec \in Decodes,
       ga1 \in GetattrResults :
        ServeNfs(xid, NFS_VERSION, proc, [NoArgs EXCEPT !.fh = fh, !.decodes = dec],
              [NoOracle EXCEPT !.ga1 = ga1])

CallLookup ==
    /\ pc = "idle"
    /\ \E xid \in XidInputs, fh \in FhInputs, dec \in Decodes, ga1 \in GetattrResults,
       ga2 \in PostResults, res \in IdResults :
        ServeNfs(xid, NFS_VERSION, 3, [NoArgs EXCEPT !.fh = fh, !.decodes = dec],
              [NoOracle EXCEPT !.ga1 = ga1, !.ga2 = ga2, !.res = res])

CallReadlink ==
    /\ pc = "idle"
    /\ \E xid \in XidInputs, fh \in FhInputs, dec \in Decodes, ga1 \in GetattrResults,
       res \in PathResults :
        ServeNfs(xid, NFS_VERSION, 5, [NoArgs EXCEPT !.fh = fh, !.decodes = dec],
              [NoOracle EXCEPT !.ga1 = ga1, !.res = res])

CallRead ==
    /\ pc = "idle"
    /\ \E xid \in XidInputs, fh \in FhInputs, dec \in Decodes, ga1 \in GetattrResults,
       res \in ReadResults :
        ServeNfs(xid, NFS_VERSION, 6, [NoArgs EXCEPT !.fh = fh, !.decodes = dec],
              [NoOracle EXCEPT !.ga1 = ga1, !.res = res])

CallWrite ==
    /\ pc = "idle"
    /\ \E xid \in XidInputs, fh \in FhInputs, dec \in Decodes, ga1 \in GetattrResults,
       res \in AttrResults, count \in {2, 3} :
        ServeNfs(xid, NFS_VERSION, 7,
              [NoArgs EXCEPT !.fh = fh, !.decodes = dec, !.count = count, !.datalen = 2],
              [NoOracle EXCEPT !.ga1 = ga1, !.res = res])

\* the attributes a client supplies: none, a mode, a size of zero
SattrInputs ==
    {sattr3_default, [sattr3_default EXCEPT !.set_mode = TRUE, !.mode = 420],
     [sattr3_default EXCEPT !.set_size = TRUE]}

CallCreate ==
    /\ pc = "idle"
    /\ \E xid \in XidInputs, fh \in FhInputs, dec \in Decodes, how \in Decodes,
       mode \in {"UNCHECKED", "GUARDED", "EXCLUSIVE"},
       sattr \in SattrInputs,
       ga1 \in GetattrResults, ga2 \in PostResults,
       look \in IdResults, res \in NodeResults :
        ServeNfs(xid, NFS_VERSION, 8,
              [NoArgs EXCEPT !.fh = fh, !.decodes = dec, !.mode = mode,
                             !.how_decodes = how, !.sattr = sattr],
              [NoOracle EXCEPT !.ga1 = ga1, !.ga2 = ga2, !.lookup = look, !.res = res])

CallSetattr ==
    /\ pc = "idle"
    /\ \E xid \in XidInputs, fh \in FhInputs, dec \in Decodes,
       guard \in {"Void", "match", "mismatch"},
       ga1 \in GetattrResults, res \in AttrResults :
        ServeNfs(xid, NFS_VERSION, 2,
              [NoArgs EXCEPT !.fh = fh, !.decodes = dec, !.guard = guard],
              [NoOracle EXCEPT !.ga1 = ga1, !.res = res])

\* MKDIR and SYMLINK
CallMakeNode ==
    /\ pc = "idle"
    /\ \E xid \in XidInputs, proc \in {9, 10}, fh \in FhInputs, dec \in Decodes,
       ga1 \in GetattrResults, ga2 \in PostResults, res \in NodeResults :
        ServeNfs(xid, NFS_VERSION, proc, [NoArgs EXCEPT !.fh = fh, !.decodes = dec],
              [NoOracle EXCEPT !.ga1 = ga1, !.ga2 = ga2, !.res = res])

\* REMOVE and RMDIR
CallRemove ==
    /\ pc = "idle"
    /\ \E xid \in XidInputs, proc \in {12, 13}, fh \in FhInputs, dec \in Decodes,
       ga1 \in GetattrResults, ga2 \in PostResults, res \in UnitResults :
        ServeNfs(xid, NFS_VERSION, proc, [NoArgs EXCEPT !.fh = fh, !.decodes = dec],
              [NoOracle EXCEPT !.ga1 = ga1, !.ga2 = ga2, !.res = res])

CallRename ==
    /\ pc = "idle"
    /\ \E xid \in XidInputs, fh \in FhInputs, fh2 \in FhInputs, dec \in Decodes,
       ga1 \in GetattrResults, ga2 \in PostResults,
       ga3 \in PostResults, ga4 \in PostResults,
       res \in UnitResults :
        ServeNfs(xid, NFS_VERSION, 14,
              [NoArgs EXCEPT !.fh = fh, !.fh2 = fh2, !.decodes = dec],
              [NoOracle EXCEPT !.ga1 = ga1, !.ga2 = ga2, !.ga3 = ga3, !.ga4 = ga4,
                               !.res = res])

\* READDIR and READDIRPLUS
CallReaddir ==
    /\ pc = "idle"
    /\ \E xid \in XidInputs, proc \in {16, 17}, fh \in FhInputs, dec \in Decodes,
       ga1 \in GetattrResults, listing \in DirResults, cookie \in {0, 1},
       dircount \in {64, 4096}, maxcount \in {64, 4096} :
        ServeNfs(xid, NFS_VERSION, proc,
              [NoArgs EXCEPT !.fh = fh, !.decodes = dec, !.cookie = cookie,
                             !.dircount = dircount, !.maxcount = maxcount],
              [NoOracle EXCEPT !.ga1 = ga1, !.dir = listing])

\* the client reads the reply; the next call can be served
NextCall ==
    /\ pc = "replied"
    /\ pc' = "idle"
    /\ call' = NoCall
    /\ UNCHANGED <<now, capabilities, overflow_checks>>
    /\ GenUntouched
    /\ UNCHANGED fhVars
    /\ UNCHANGED <<connVars, listenVars, fileVars, mountVars, extVars>>
    /\ UNCHANGED dirVars

\* a millisecond passes
Tick ==
    /\ now < StartMs + MaxTicks
    /\ now' = now + 1
    /\ GenUntouched
    /\ UNCHANGED nfsVars
    /\ UNCHANGED fhVars
    /\ UNCHANGED <<connVars, listenVars, fileVars, mountVars, extVars>>
    /\ UNCHANGED dirVars

(***************************************************************************)
(* Minting and parsing handles directly (src/vfs.rs 248-268)               *)
(***************************************************************************)
NoParse == [fh |-> <<>>, res |-> Err("NFS3ERR_BADHANDLE"), live |-> FALSE]
NoChain == [proc |-> 0, cookie |-> 0, collected |-> <<>>, eof |-> FALSE, calls |-> 0]

MintFh ==
    \E id \in FileIds :
        /\ minted' = minted \cup {[id |-> id, fh |-> id_to_fh(id)]}
        /\ GenTouched
        /\ UNCHANGED <<now, parsed>>
        /\ UNCHANGED nfsVars
        /\ UNCHANGED dirVars
        /\ UNCHANGED <<connVars, listenVars, fileVars, mountVars, extVars>>

ParseFh ==
    \E fh \in FhInputs \cup {m.fh : m \in minted} :
        /\ parsed' = [fh |-> fh, res |-> fh_to_id(fh), live |-> TRUE]
        /\ IF Len(fh) = 16 THEN GenTouched ELSE GenUntouched
        /\ UNCHANGED <<now, minted>>
        /\ UNCHANGED nfsVars
        /\ UNCHANGED dirVars
        /\ UNCHANGED <<connVars, listenVars, fileVars, mountVars, extVars>>

\* the codec before its first use, and a listener nobody has asked for
NoWire == [op |-> "none"]
NoBinding == [state |-> "unbound"]
\* a connection just accepted: process_socket has spawned the reader task
\* and entered its loop; nothing was received, no worker runs
NoLive ==
    [sent |-> 0, client_closed |-> FALSE, socket_in |-> <<>>, duplex |-> <<>>,
     loop |-> "running", reader |-> "running", workers |-> {}, queue |-> <<>>,
     socket_out |-> <<>>, discarded |-> {}]
NoRace == [op |-> "none"]
NoFSMap == [op |-> "none"]

\* the regular file as the mirrored directory first holds it: empty, with
\* the modification and change times of the epoch
NoFile == [data |-> <<>>, mtime |-> nfstime3(0, 0), ctime |-> nfstime3(0, 0)]

InitCommon ==
    /\ now = StartMs
    /\ GENERATION_NUMBER = 0
    /\ GENERATION_NUMBER_INIT = FALSE
    /\ pc = "idle"
    /\ call = NoCall
    /\ minted = {}
    /\ parsed = NoParse
    /\ chain = NoChain
    /\ client_sent = 0
    /\ client_closed = FALSE
    /\ socket_in = <<>>
    /\ socket_receive_channel = <<>>
    /\ cur_fragment = <<>>
    /\ tasks = {}
    /\ msgrecvchan = <<>>
    /\ enqueued = <<>>
    /\ writing = <<>>
    /\ socket_out = <<>>
    /\ socket_ok = TRUE
    /\ closed = "open"
    /\ listener = "accepting"
    /\ backlog = <<>>
    /\ spawned = <<>>
    /\ file = NoFile
    /\ sink = <<>>
    /\ mount_log = <<>>
    /\ wire = NoWire
    /\ binding = NoBinding
    /\ live = NoLive
    /\ race = NoRace
    /\ fsmap = NoFSMap

InitFh ==
    /\ InitCommon
    /\ mount_signal = "None"
    /\ capabilities = "ReadWrite"
    /\ overflow_checks = FALSE
    /\ dir = <<>>

NextFh == Tick \/ MintFh \/ ParseFh

SpecFh == InitFh /\ [][NextFh]_vars

InitNfs ==
    /\ InitCommon
    /\ mount_signal = "None"
    /\ capabilities \in {"ReadOnly", "ReadWrite"}
    /\ overflow_checks \in BOOLEAN
    /\ dir = <<>>

NextNfs ==
    \/ Tick
    \/ NextCall
    \/ CallNull
    \/ CallUnavailable
    \/ CallGetattr
    \/ CallAccess
    \/ CallStatic
    \/ CallLookup
    \/ CallReadlink
    \/ CallRead
    \/ CallWrite
    \/ CallCreate
    \/ CallSetattr
    \/ CallMakeNode
    \/ CallRemove
    \/ CallRename
    \/ CallReaddir

SpecNfs == InitNfs /\ [][NextNfs]_vars

\* the nfsstat3 that follows the accepted-reply header, if there is one
StatusOf(res) ==
    IF /\ Len(res.out) >= 2
       /\ res.out[1].t = "rpc_msg"
       /\ res.out[1].stat = "SUCCESS"
       /\ res.out[2].t = "nfsstat3"
    THEN res.out[2].v
    ELSE "none"

(***************************************************************************)
(* Enumerating a directory.  The exported directory does not change; its   *)
(* children are held in fileid order, as the mirror back-end's BTreeSet.   *)
(***************************************************************************)
\* number of children of the largest directory
MaxDirLen == 4
\* number of calls a client makes in one enumeration
MaxCalls == 3

\* NFSFileSystem::root_dir of the mirror back-end
RootDir == 0
NameOfLen(n) == [k \in 1..n |-> 97]
ExampleDir ==
    [k \in 1..MaxDirLen |->
        [fileid |-> 10 * k, name |-> NameOfLen(1 + (k % 3)), attr |-> A2]]
DirInputs == {SubSeq(ExampleDir, 1, n) : n \in 0..MaxDirLen}
FileidsOf(entries) == {entries[k].fileid : k \in DOMAIN entries}
DircountInputs == {100, 300, 4096}
MaxcountInputs == {64, 130, 400, 4096}

\* the entries of a READDIR or READDIRPLUS reply, in reply order
EntriesOf(out) == SelectSeq(out, LAMBDA item : item.t \in {"entry3", "entryplus3"})
\* the eof flag is the last item of a success reply
EofOf(out) == out[Len(out)].v

READDIR3args(cookie, dircount, maxcount) ==
    [NoArgs EXCEPT !.fh = id_to_fh(RootDir), !.cookie = cookie,
                   !.dircount = dircount, !.maxcount = maxcount]

\* one READDIR or READDIRPLUS call on the exported directory
ServeDir(xid, proc, cookie, dircount, maxcount, ga1) ==
    Serve(xid, NFS_VERSION, proc, READDIR3args(cookie, dircount, maxcount),
          [NoOracle EXCEPT !.ga1 = ga1, !.dir = Ok(dir)])

\* a call with any cookie the client holds
ListReaddir ==
    /\ pc = "idle"
    /\ \E xid \in XidInputs, cookie \in {0} \cup FileidsOf(dir),
          dircount \in DircountInputs, ga1 \in GetattrResults :
            ServeDir(xid, 16, cookie, dircount, 0, ga1)
    /\ UNCHANGED dirVars

ListReaddirplus ==
    /\ pc = "idle"
    /\ \E xid \in XidInputs, cookie \in {0} \cup FileidsOf(dir),
          dircount \in DircountInputs, maxcount \in MaxcountInputs,
          ga1 \in GetattrResults :
            ServeDir(xid, 17, cookie, dircount, maxcount, ga1)
    /\ UNCHANGED dirVars

\* the verifiers a client sends: none, the directory's current one, and one
\* of a directory since modified
VerfInputs == {[hi |-> 0, lo |-> 0], dirversion(Ok(A1)), [hi |-> 9, lo |-> 1]}

\* a READDIR or READDIRPLUS call that carries a cookie verifier
ListWithVerifier ==
    /\ pc = "idle"
    /\ \E proc \in {16, 17}, cookie \in {0} \cup FileidsOf(dir),
          cookieverf \in VerfInputs, ga1 \in GetattrResults :
            Serve(1, NFS_VERSION, proc,
                  [READDIR3args(cookie, 512, 1024) EXCEPT !.cookieverf = cookieverf],
                  [NoOracle EXCEPT !.ga1 = ga1, !.dir = Ok(dir)])
    /\ UNCHANGED dirVars

\* the client's bookkeeping after a reply: the entries it has seen and the
\* cookie of the last one
Advance(ch, proc, res) ==
    IF res.panic \/ StatusOf(res) # "NFS3_OK"
    THEN [ch EXCEPT !.proc = proc, !.calls = ch.calls + 1]
    ELSE LET entries == EntriesOf(res.out) IN
         [proc |-> proc,
          cookie |-> IF entries = <<>> THEN ch.cookie
                     ELSE entries[Len(entries)].cookie,
          collected |-> ch.collected \o [k \in DOMAIN entries |-> entries[k].fileid],
          eof |-> EofOf(res.out),
          calls |-> ch.calls + 1]

\* the next call of an enumeration: cookie 0 first, then the last cookie;
\* the client asks for budgets of at least 128 bytes
ChainStep(proc) ==
    /\ pc = "idle"
    /\ chain.proc \in {0, proc}
    /\ ~chain.eof
    /\ chain.calls < MaxCalls
    /\ \E xid \in XidInputs, dircount \in {n \in DircountInputs : n >= 128},
          maxcount \in {n \in MaxcountInputs : n >= 128} :
            ServeDir(xid, proc, chain.cookie, dircount, maxcount, Ok(A1))
    /\ chain' = Advance(chain, proc, call'.res)
    /\ UNCHANGED dir

ChainReaddir == ChainStep(16)
ChainReaddirplus == ChainStep(17)

\* the client abandons its enumeration
RestartChain ==
    /\ pc = "idle"
    /\ chain # NoChain
    /\ chain' = NoChain
    /\ UNCHANGED <<dir, now>>
    /\ GenUntouched
    /\ UNCHANGED nfsVars
    /\ UNCHANGED fhVars
    /\ UNCHANGED <<connVars, listenVars, fileVars, mountVars, extVars>>

InitDir ==
    /\ InitCommon
    /\ mount_signal = "None"
    /\ capabilities = "ReadWrite"
    /\ overflow_checks \in BOOLEAN
    /\ dir \in DirInputs

NextDir ==
    \/ NextCall
    \/ ListReaddir
    \/ ListReaddirplus
    \/ ListWithVerifier
    \/ ChainReaddir
    \/ ChainReaddirplus
    \/ RestartChain

SpecDir == InitDir /\ [][NextDir]_vars

(***************************************************************************)
(* handle_rpc and the portmap and mount programs (src/rpcwire.rs 30-75,    *)
(* src/portmap_handlers.rs, src/mount_handlers.rs).  A record is the       *)
(* sequence of its parts: part 1 is the RPC header up to the verifier,     *)
(* part 2 the arguments of the procedure.                                  *)
(***************************************************************************)
\* RPCContext::local_port, the port the mirror example binds (HOSTPORT)
local_port == 11111

Part(m, k) == [msg |-> m, part |-> k]
Encode(m) == <<Part(m, 1), Part(m, 2)>>

mountstat3(st) == [t |-> "mountstat3", v |-> st]

handle_portmap(xid, vers, proc, a) ==
    IF vers # PORTMAP_VERSION
    THEN Done(<<prog_mismatch_reply_message(xid, PORTMAP_VERSION)>>, <<>>)
    ELSE CASE proc = 0 -> Done(<<make_success_reply(xid)>>, <<>>)
           [] proc = 3 -> IF ~a.decodes THEN Fail(<<>>, <<>>)
                          ELSE Done(<<make_success_reply(xid), u32_item(local_port)>>, <<>>)
           [] OTHER -> Done(<<proc_unavail_reply_message(xid)>>, <<>>)

\* o.lookup is the result of path_to_id; the mount_signal sends are listed
\* with the back-end calls
handle_mount(xid, proc, a, o) ==
    CASE proc = 0 -> Done(<<make_success_reply(xid)>>, <<>>)
      [] proc = 1 ->
            IF ~a.decodes THEN Fail(<<>>, <<>>)
            ELSE IF o.lookup.ok
            THEN Done(<<make_success_reply(xid), mountstat3("MNT3_OK"),
                        struct_item("mountres3_ok",
                            [fhandle |-> id_to_fh(o.lookup.val),
                             auth_flavors |-> <<"AUTH_NULL", "AUTH_UNIX">>])>>,
                      <<B("path_to_id", 0), B("mount_signal", 1)>>)
            ELSE Done(<<make_success_reply(xid), mountstat3("MNT3ERR_NOENT")>>,
                      <<B("path_to_id", 0)>>)
      [] proc = 3 ->
            IF ~a.decodes THEN Fail(<<>>, <<>>)
            ELSE Done(<<make_success_reply(xid), mountstat3("MNT3_OK")>>,
                      <<B("mount_signal", 0)>>)
      [] proc = 4 -> Done(<<make_success_reply(xid), mountstat3("MNT3_OK")>>,
                          <<B("mount_signal", 0)>>)
      [] proc = 5 -> Done(<<make_success_reply(xid), bool_item(TRUE),
                            opaque_item(<<47>>), bool_item(FALSE), bool_item(FALSE)>>,
                          <<>>)
      [] OTHER -> Done(<<proc_unavail_reply_message(xid)>>, <<>>)

KnownFlavors == {"AUTH_NULL", "AUTH_UNIX", "AUTH_SHORT", "AUTH_DES"}

\* rpc_msg::deserialize: a msg_type other than CALL and REPLY leaves the
\* default body, a CALL with a default call_body (src/rpc.rs 170-202)
rpc_msg_deserialize(m) ==
    IF m.body \in {"CALL", "REPLY"} THEN m
    ELSE [m EXCEPT !.body = "CALL", !.rpcvers = 0, !.prog = 0, !.vers = 0,
                   !.proc = 0, !.flavor = "AUTH_NULL"]

\* the header of the record deserializes
HeaderDecodes(input) ==
    /\ input # <<>>
    /\ Head(input).part = 1
    /\ \/ Head(input).msg.body \notin {"CALL", "REPLY"}
       \/ Head(input).msg.flavor \in KnownFlavors

\* the arguments that follow the header deserialize
ArgsOf(input) ==
    LET m == Head(input).msg IN
    [m.a EXCEPT !.decodes = /\ m.a.decodes
                            /\ Len(input) = 2
                            /\ input[2] = Part(m, 2)]

handle_rpc(input, o, caps, checks) ==
    IF ~HeaderDecodes(input) THEN Fail(<<>>, <<>>)
    ELSE LET recv == rpc_msg_deserialize(Head(input).msg)
             xid == recv.xid
             a == ArgsOf(input) IN
    IF recv.body # "CALL" THEN Fail(<<>>, <<>>)
    ELSE IF recv.flavor = "AUTH_UNIX" /\ ~recv.cred_decodes THEN Fail(<<>>, <<>>)
    ELSE IF recv.rpcvers # 2 THEN Done(<<rpc_vers_mismatch(xid)>>, <<>>)
    ELSE IF recv.prog = NFS_PROGRAM
    THEN handle_nfs(xid, recv.vers, recv.proc, a, o, caps, checks)
    ELSE IF recv.prog = PORTMAP_PROGRAM
    THEN handle_portmap(xid, recv.vers, recv.proc, a)
    ELSE IF recv.prog = MOUNT_PROGRAM
    THEN handle_mount(xid, recv.proc, a, o)
    ELSE Done(<<prog_unavail_reply_message(xid)>>, <<>>)

\* whether handle_rpc reaches get_generation_number()
RpcReadsGeneration(input, o, caps) ==
    /\ HeaderDecodes(input)
    /\ LET recv == rpc_msg_deserialize(Head(input).msg) IN
       /\ recv.body = "CALL"
       /\ recv.flavor = "AUTH_UNIX" => recv.cred_decodes
       /\ recv.rpcvers = 2
       /\ \/ /\ recv.prog = NFS_PROGRAM
             /\ ReadsGeneration(recv.vers, recv.proc, ArgsOf(input), caps)
          \/ /\ recv.prog = MOUNT_PROGRAM
             /\ recv.proc = 1
             /\ ArgsOf(input).decodes
             /\ o.lookup.ok

(***************************************************************************)
(* One connection (src/tcp.rs 31-86, src/rpcwire.rs 95-193)                *)
(***************************************************************************)
\* number of requests the client sends on the connection
MaxRequests == 2

CallMsg(xid, prog, vers, proc, a) ==
    [xid |-> xid, body |-> "CALL", rpcvers |-> 2, flavor |-> "AUTH_NULL",
     cred_decodes |-> TRUE, prog |-> prog, vers |-> vers, proc |-> proc, a |-> a]

\* the requests a client sends with transaction id xid: NULL, GETATTR, a
\* WRITE whose count differs from its data, a credential of an unknown
\* flavor, and a message type that is neither CALL nor REPLY
RequestInputs(xid) ==
    {CallMsg(xid, NFS_PROGRAM, NFS_VERSION, 0, NoArgs),
     CallMsg(xid, NFS_PROGRAM, NFS_VERSION, 1, [NoArgs EXCEPT !.fh = MakeFh(StartMs, RootDir)]),
     CallMsg(xid, NFS_PROGRAM, NFS_VERSION, 7,
             [NoArgs EXCEPT !.fh = MakeFh(StartMs, RootDir), !.count = 3, !.datalen = 2]),
     [CallMsg(xid, NFS_PROGRAM, NFS_VERSION, 0, NoArgs) EXCEPT !.flavor = "unknown"],
     [CallMsg(xid, NFS_PROGRAM, NFS_VERSION, 0, NoArgs) EXCEPT !.body = "OTHER"]}

Fragment(last, data) == [last |-> last, data |-> data]

\* the ways a client frames a record: one fragment, two fragments, or one
\* last fragment that ends after the RPC header
Framings(m) ==
    {<<Fragment(TRUE, Encode(m))>>,
     <<Fragment(FALSE, <<Part(m, 1)>>), Fragment(TRUE, <<Part(m, 2)>>)>>,
     <<Fragment(TRUE, <<Part(m, 1)>>)>>}

ClientSend ==
    /\ closed = "open"
    /\ ~client_closed
    /\ client_sent < MaxRequests
    /\ \E m \in RequestInputs(client_sent + 1) :
          \E frs \in Framings(m) :
             socket_in' = socket_in \o frs
    /\ client_sent' = client_sent + 1
    /\ UNCHANGED <<client_closed, socket_receive_channel, cur_fragment, tasks,
                   msgrecvchan, enqueued, writing, socket_out, socket_ok, closed>>
    /\ UNCHANGED <<now, GENERATION_NUMBER, GENERATION_NUMBER_INIT>>
    /\ UNCHANGED <<nfsVars, fhVars, dirVars, listenVars, fileVars, mountVars, extVars>>

ClientClose ==
    /\ closed = "open"
    /\ ~client_closed
    /\ client_closed' = TRUE
    /\ UNCHANGED <<client_sent, socket_in, socket_receive_channel, cur_fragment,
                   tasks, msgrecvchan, enqueued, writing, socket_out, socket_ok,
                   closed>>
    /\ UNCHANGED <<now, GENERATION_NUMBER, GENERATION_NUMBER_INIT>>
    /\ UNCHANGED <<nfsVars, fhVars, dirVars, listenVars, fileVars, mountVars, extVars>>

\* the peer resets the connection: reads and writes fail from now on
PeerReset ==
    /\ closed = "open"
    /\ socket_ok
    /\ socket_ok' = FALSE
    /\ UNCHANGED <<client_sent, client_closed, socket_in, socket_receive_channel,
                   cur_fragment, tasks, msgrecvchan, enqueued, writing,
                   socket_out, closed>>
    /\ UNCHANGED <<now, GENERATION_NUMBER, GENERATION_NUMBER_INIT>>
    /\ UNCHANGED <<nfsVars, fhVars, dirVars, listenVars, fileVars, mountVars, extVars>>

\* select arm 1 of process_socket: socket.readable() and try_read
SocketReadable ==
    /\ closed = "open"
    /\ writing = <<>>
    /\ IF ~socket_ok
       THEN /\ closed' = "read_error"
            /\ UNCHANGED <<socket_in, socket_receive_channel>>
       ELSE IF socket_in # <<>>
       THEN /\ socket_receive_channel' = Append(socket_receive_channel, Head(socket_in))
            /\ socket_in' = Tail(socket_in)
            /\ UNCHANGED closed
       ELSE /\ client_closed
            /\ closed' = "eof"
            /\ UNCHANGED <<socket_in, socket_receive_channel>>
    /\ UNCHANGED <<client_sent, client_closed, cur_fragment, tasks, msgrecvchan,
                   enqueued, writing, socket_out, socket_ok>>
    /\ UNCHANGED <<now, GENERATION_NUMBER, GENERATION_NUMBER_INIT>>
    /\ UNCHANGED <<nfsVars, fhVars, dirVars, listenVars, fileVars, mountVars, extVars>>

\* SocketMessageHandler::read: read_fragment, then spawn a worker when the
\* fragment is the last of its record
MessageHandlerRead ==
    /\ closed = "open"
    /\ socket_receive_channel # <<>>
    /\ LET fragment == Head(socket_receive_channel)
           append_to == cur_fragment \o fragment.data IN
       /\ socket_receive_channel' = Tail(socket_receive_channel)
       /\ IF fragment.last
          THEN /\ tasks' = tasks \cup {append_to}
               /\ cur_fragment' = <<>>
          ELSE /\ cur_fragment' = append_to
               /\ UNCHANGED tasks
    /\ UNCHANGED <<client_sent, client_closed, socket_in, msgrecvchan, enqueued,
                   writing, socket_out, socket_ok, closed>>
    /\ UNCHANGED <<now, GENERATION_NUMBER, GENERATION_NUMBER_INIT>>
    /\ UNCHANGED <<nfsVars, fhVars, dirVars, listenVars, fileVars, mountVars, extVars>>

\* a message on the reply queue: Ok(write_buf) or Err(e); input is the
\* record it answers
OkMsg(input, buf) == [ok |-> TRUE, buf |-> buf, input |-> input]
ErrMsg(input, buf) == [ok |-> FALSE, buf |-> buf, input |-> input]

\* the task spawned by read: handle_rpc, then send the outcome
WorkerRun ==
    /\ closed = "open"
    /\ \E input \in tasks, ga1 \in GetattrResults :
          LET o == [NoOracle EXCEPT !.ga1 = ga1]
              maybe_reply == handle_rpc(input, o, capabilities, overflow_checks)
              sent == IF maybe_reply.panic THEN <<>>
                      ELSE IF maybe_reply.err
                      THEN <<ErrMsg(input, maybe_reply.out)>>
                      ELSE <<OkMsg(input, maybe_reply.out)>> IN
          /\ tasks' = tasks \ {input}
          /\ msgrecvchan' = msgrecvchan \o sent
          /\ enqueued' = enqueued \o sent
          /\ IF RpcReadsGeneration(input, o, capabilities)
             THEN GenTouched ELSE GenUntouched
    /\ UNCHANGED <<client_sent, client_closed, socket_in, socket_receive_channel,
                   cur_fragment, writing, socket_out, socket_ok, closed>>
    /\ UNCHANGED <<now, capabilities, overflow_checks, pc, call>>
    /\ UNCHANGED <<fhVars, dirVars, listenVars, fileVars, mountVars, extVars>>

\* mpsc::UnboundedReceiver::recv: the oldest message and the rest
recv_mutant(chan) ==
    [msg |-> chan[Len(chan)], rest |-> SubSeq(chan, 1, Len(chan) - 1)]
recv(chan) == [msg |-> Head(chan), rest |-> Tail(chan)]

\* what write_fragment puts on the socket: the header with the last flag
\* and the length, then the buffer
FragmentHeader(buf) == [kind |-> "header", last |-> TRUE, length |-> bytes_written(buf)]
FragmentData(buf) == [kind |-> "data", buf |-> buf]

\* select arm 2 of process_socket: a message of the reply queue; for
\* Ok(msg), write_fragment writes the header first
ReplyReceived ==
    /\ closed = "open"
    /\ writing = <<>>
    /\ msgrecvchan # <<>>
    /\ LET reply == recv(msgrecvchan) IN
       /\ msgrecvchan' = reply.rest
       /\ IF ~reply.msg.ok
          THEN /\ closed' = "rpc_error"
               /\ UNCHANGED <<writing, socket_out>>
          ELSE IF socket_ok
          THEN /\ socket_out' = Append(socket_out, FragmentHeader(reply.msg.buf))
               /\ writing' = <<reply.msg.buf>>
               /\ UNCHANGED closed
          ELSE \* the write error is logged and the loop goes on
               UNCHANGED <<writing, socket_out, closed>>
    /\ UNCHANGED <<client_sent, client_closed, socket_in, socket_receive_channel,
                   cur_fragment, tasks, enqueued, socket_ok>>
    /\ UNCHANGED <<now, GENERATION_NUMBER, GENERATION_NUMBER_INIT>>
    /\ UNCHANGED <<nfsVars, fhVars, dirVars, listenVars, fileVars, mountVars, extVars>>

\* write_fragment, second write_all: the buffer
WriteData ==
    /\ closed = "open"
    /\ writing # <<>>
    /\ writing' = <<>>
    /\ IF socket_ok
       THEN socket_out' = Append(socket_out, FragmentData(writing[1]))
       ELSE UNCHANGED socket_out
    /\ UNCHANGED <<client_sent, client_closed, socket_in, socket_receive_channel,
                   cur_fragment, tasks, msgrecvchan, enqueued, socket_ok, closed>>
    /\ UNCHANGED <<now, GENERATION_NUMBER, GENERATION_NUMBER_INIT>>
    /\ UNCHANGED <<nfsVars, fhVars, dirVars, listenVars, fileVars, mountVars, extVars>>

InitConn ==
    /\ InitCommon
    /\ mount_signal = "None"
    /\ capabilities = "ReadWrite"
    /\ overflow_checks = FALSE
    /\ dir = <<>>

NextConn ==
    \/ ClientSend
    \/ ClientClose
    \/ PeerReset
    \/ SocketReadable
    \/ MessageHandlerRead
    \/ WorkerRun
    \/ ReplyReceived
    \/ WriteData

SpecConn == InitConn /\ [][NextConn]_vars

GenOf(fh) == from_le_bytes(SubSeq(fh, 1, 8))

Replied(procs) ==
    /\ pc = "replied"
    /\ call.vers = NFS_VERSION
    /\ call.proc \in procs

(***************************************************************************)
(* C3                                                                      *)
(***************************************************************************)
\* C3: every handle id_to_fh returned for a fileid i parses back to Ok(i),
\* in every later state of the process, whatever was minted or parsed since
C3_RoundTrip ==
    /\ \A m \in minted : fh_to_id(m.fh) = Ok(m.id)
    /\ \A m \in minted : (parsed.live /\ parsed.fh = m.fh) => parsed.res = Ok(m.id)

\* two handles were minted, time has passed, and one of them was parsed
C3_Witness ==
    /\ Cardinality(minted) >= 2
    /\ now > StartMs
    /\ parsed.live
    /\ \E m \in minted : parsed.fh = m.fh /\ parsed.res = Ok(m.id)

(***************************************************************************)
(* C1                                                                      *)
(***************************************************************************)
\* C1: on a read-only back-end every WRITE, CREATE, MKDIR, SYMLINK, REMOVE,
\* RMDIR, RENAME and SETATTR call is answered NFS3ERR_ROFS and awaits no
\* back-end file operation, whatever its arguments are
C1_ReadOnlyGate ==
    (Replied(MutatingProcs) /\ capabilities = "ReadOnly") =>
        /\ StatusOf(call.res) = "NFS3ERR_ROFS"
        /\ call.res.backend = <<>>
        /\ ~call.res.err
        /\ ~call.res.panic

\* a RENAME whose arguments do not even decode was answered on a read-only
\* back-end
C1_Witness ==
    /\ Replied({14})
    /\ capabilities = "ReadOnly"
    /\ ~call.a.decodes
    /\ StatusOf(call.res) = "NFS3ERR_ROFS"

(***************************************************************************)
(* C2                                                                      *)
(***************************************************************************)
\* the call is stopped by the capability gate of the mutating procedures
GateRejects == call.proc \in MutatingProcs /\ capabilities = "ReadOnly"
\* the WRITE count differs from the length of the data
CountRejects == call.proc = 7 /\ call.a.datalen # call.a.count

C4_BadLengthIsBadHandle ==
    (/\ Replied(HandleProcs)
     /\ call.a.decodes
     /\ \/ Len(call.a.fh) # 16
        \/ call.proc = 14 /\ Len(call.a.fh2) # 16) =>
        /\ StatusOf(call.res) = "NFS3ERR_BADHANDLE"
        /\ call.res.backend = <<>>

\* C4 amended: a decoded call whose handle has a length other than 16
\* awaits no back-end file operation and replies NFS3ERR_BADHANDLE, except
\* that a mutating procedure on a read-only back-end replies NFS3ERR_ROFS,
\* a WRITE whose count differs from its data length replies GARBAGE_ARGS,
\* and a RENAME whose from-directory handle has 16 bytes and is rejected
\* replies the status of that handle
C4_BadLengthAmended ==
    (/\ Replied(HandleProcs)
     /\ call.a.decodes
     /\ \/ Len(call.a.fh) # 16
        \/ call.proc = 14 /\ Len(call.a.fh2) # 16) =>
        /\ call.res.backend = <<>>
        /\ ~call.res.err
        /\ ~call.res.panic
        /\ IF GateRejects
           THEN StatusOf(call.res) = "NFS3ERR_ROFS"
           ELSE IF CountRejects
           THEN call.res.out = <<garbage_args_reply_message(call.xid)>>
           ELSE IF Len(call.a.fh) # 16 \/ fh_to_id(call.a.fh).ok
           THEN StatusOf(call.res) = "NFS3ERR_BADHANDLE"
           ELSE StatusOf(call.res) = fh_to_id(call.a.fh).err

\* a READ with a 17-byte handle was answered NFS3ERR_BADHANDLE
C4_Witness ==
    /\ Replied({6})
    /\ call.a.decodes
    /\ Len(call.a.fh) = 17
    /\ StatusOf(call.res) = "NFS3ERR_BADHANDLE"
    /\ call.res.backend = <<>>

(***************************************************************************)
(* C5 - C8                                                                 *)
(***************************************************************************)
NoDuplicates(seq) == \A i, j \in DOMAIN seq : i # j => seq[i] # seq[j]
DirReplied(procs) == Replied(procs) /\ ~call.res.panic /\ StatusOf(call.res) = "NFS3_OK"

\* C5: a READDIR enumeration of an unchanging directory (cookie 0, then the
\* cookie of the last entry returned) sees no fileid twice, and when a reply
\* has eof = true it has seen every fileid of the directory
C5_ReaddirEnumeratesOnce ==
    chain.proc = 16 =>
        /\ NoDuplicates(chain.collected)
        /\ chain.eof => FileidsOf(dir) = {chain.collected[k] : k \in DOMAIN chain.collected}

\* C6: no READDIR or READDIRPLUS reply to a call with cookie c holds an
\* entry whose fileid is c or less
C6_ResumesAfterCookie ==
    DirReplied({16, 17}) =>
        \A k \in DOMAIN EntriesOf(call.res.out) :
            EntriesOf(call.res.out)[k].fileid > call.a.cookie

\* C7: for every maxcount the READDIRPLUS handler completes without an
\* arithmetic overflow, and its encoded reply is at most maxcount bytes long
C7_ReplyWithinMaxcount ==
    Replied({17}) =>
        /\ ~call.res.panic
        /\ StatusOf(call.res) = "NFS3_OK" => bytes_written(call.res.out) <= call.a.maxcount

\* the value the back-end readdir returned to this call
ReaddirReturned == call.res.backend[Len(call.res.backend)].ret

\* C8: in a READDIR or READDIRPLUS success reply eof is true only if every
\* entry the back-end returned is in the reply and the back-end reported
\* the end of the directory; eof is false when an entry was dropped
C8_EofOnlyWhenComplete ==
    DirReplied({16, 17}) =>
        /\ EofOf(call.res.out) =>
              /\ Len(EntriesOf(call.res.out)) = Len(ReaddirReturned.entries)
              /\ ReaddirReturned.end
        /\ Len(EntriesOf(call.res.out)) < Len(ReaddirReturned.entries) =>
              ~EofOf(call.res.out)

\* a READDIRPLUS reply dropped an entry for its byte budget although the
\* back-end had reported the end of the directory
C8_Witness ==
    /\ DirReplied({17})
    /\ Len(EntriesOf(call.res.out)) < Len(ReaddirReturned.entries)
    /\ ReaddirReturned.end
    /\ ~EofOf(call.res.out)

(***************************************************************************)
(* C9, C10                                                                 *)
(***************************************************************************)
\* the records a client reads from the socket: a header, then a buffer of
\* the length the header announces
RECURSIVE ReadRecords(_)
ReadRecords(w) ==
    IF /\ Len(w) >= 2
       /\ w[1].kind = "header"
       /\ w[2].kind = "data"
       /\ w[1].length = bytes_written(w[2].buf)
    THEN <<w[2].buf>> \o ReadRecords(SubSeq(w, 3, Len(w)))
    ELSE <<>>

IsPrefix(p, q) == Len(p) <= Len(q) /\ SubSeq(q, 1, Len(p)) = p

\* the buffers of the Ok messages among the first n messages enqueued
OkBufs(n) ==
    LET oks == SelectSeq(SubSeq(enqueued, 1, n), LAMBDA e : e.ok) IN
    [k \in DOMAIN oks |-> oks[k].buf]

Dequeued == Len(enqueued) - Len(msgrecvchan)

\* C9: the socket holds whole records, one for each reply buffer taken from
\* the queue, in the order the workers enqueued them; nothing else is
\* written, and only a reset of the connection cuts the sequence short
C9_RepliesInEnqueueOrder ==
    /\ msgrecvchan = SubSeq(enqueued, Dequeued + 1, Len(enqueued))
    /\ IsPrefix(ReadRecords(socket_out), OkBufs(Dequeued))
    /\ Len(socket_out) \in {2 * Len(ReadRecords(socket_out)),
                            2 * Len(ReadRecords(socket_out)) + 1}
    /\ Len(socket_out) = 2 * Len(ReadRecords(socket_out)) + 1 =>
          /\ socket_out[Len(socket_out)] =
                FragmentHeader(OkBufs(Dequeued)[Len(ReadRecords(socket_out)) + 1])
          /\ writing # <<>> \/ ~socket_ok
    /\ (socket_ok /\ writing = <<>>) => ReadRecords(socket_out) = OkBufs(Dequeued)

\* two replies were written, and the worker of the second request had
\* enqueued its reply first
C9_Witness ==
    /\ Len(ReadRecords(socket_out)) = 2
    /\ ReadRecords(socket_out)[1][1].xid = 2
    /\ ReadRecords(socket_out)[2][1].xid = 1
    /\ ReadRecords(socket_out)[1] # ReadRecords(socket_out)[2]

\* the record ends after its RPC header although its procedure has arguments
ArgumentsCutShort(input) ==
    /\ Len(input) = 1
    /\ input[1].part = 1
    /\ input[1].msg.body = "CALL"
    /\ input[1].msg.flavor \in KnownFlavors
    /\ input[1].msg.rpcvers = 2
    /\ \/ input[1].msg.prog = NFS_PROGRAM /\ input[1].msg.proc \in HandleProcs
       \/ input[1].msg.prog = PORTMAP_PROGRAM /\ input[1].msg.proc = 3

\* C10: a complete record whose arguments fail to decode before any reply
\* byte was produced is answered with GARBAGE_ARGS for its xid, and the
\* connection is closed for a handler error only if reply bytes had been
\* produced
C10_DecodeFailureAnswered ==
    /\ \A k \in DOMAIN enqueued :
          ArgumentsCutShort(enqueued[k].input) =>
              /\ enqueued[k].ok
              /\ enqueued[k].buf =
                    <<garbage_args_reply_message(enqueued[k].input[1].msg.xid)>>
    /\ closed = "rpc_error" =>
          \E k \in DOMAIN enqueued : ~enqueued[k].ok /\ enqueued[k].buf # <<>>

(***************************************************************************)
(* Claims C11 to C20                                                       *)
(***************************************************************************)
\* a step in which write_fragment fails: the writer takes an Ok reply from
\* the queue, or goes on to the second write_all, on a reset socket
WriteFails ==
    /\ closed = "open"
    /\ ~socket_ok
    /\ \/ /\ msgrecvchan # <<>>
          /\ Head(msgrecvchan).ok
          /\ msgrecvchan' = Tail(msgrecvchan)
       \/ /\ writing # <<>>
          /\ writing' = <<>>

\* C11: a failure of a socket write (write_fragment) terminates the
\* processing loop of its connection: the step in which the write fails
\* leaves the loop (a failed read does leave it, see SocketReadable; the
\* part of the claim about other connections concerns state the
\* connections do not share)
C11_WriteFailureTerminates == [][WriteFails => closed' # "open"]_vars

\* the XDR items RFC 1813 puts after a status other than NFS3_OK: nothing
\* for GETATTR, two wcc_data for RENAME, one wcc_data for the other mutating
\* procedures, one post_op_attr for the rest
FailureBody(proc) ==
    IF proc = 1 THEN <<>>
    ELSE IF proc = 14
    THEN <<"pre_op_attr", "post_op_attr", "pre_op_attr", "post_op_attr">>
    ELSE IF proc \in MutatingProcs THEN <<"pre_op_attr", "post_op_attr">>
    ELSE <<"post_op_attr">>

TypesOf(out) == [k \in DOMAIN out |-> out[k].t]

\* C12: for every NFS call whose arguments decode, the bytes the worker
\* produces are exactly one RPC reply with the call's xid: one reply header
\* and nothing else when the call is not accepted as SUCCESS, else one
\* header, one nfsstat3 and, for a status other than NFS3_OK, exactly the
\* failure body of the procedure; never a missing tail, never a second
\* reply appended
C12_ExactlyOneReply ==
    (Replied(HandleProcs) /\ call.a.decodes /\ call.a.how_decodes) =>
       LET out == call.res.out IN
       /\ ~call.res.err
       /\ ~call.res.panic
       /\ Len(out) >= 1
       /\ out[1].t = "rpc_msg"
       /\ out[1].xid = call.xid
       /\ \A k \in 2..Len(out) : out[k].t # "rpc_msg"
       /\ IF out[1].stat # "SUCCESS" THEN Len(out) = 1
          ELSE /\ Len(out) >= 2
               /\ out[2].t = "nfsstat3"
               /\ out[2].v # "NFS3_OK" =>
                     TypesOf(SubSeq(out, 3, Len(out))) = FailureBody(call.proc)

(***************************************************************************)
(* The accept loop (src/tcp.rs 191-206)                                    *)
(***************************************************************************)
\* number of connections clients make
MaxConnections == 3

\* a client connects; it either stays connected or resets the connection
\* right away
ClientConnect ==
    /\ Len(backlog) + Len(spawned) < MaxConnections
    /\ \E kind \in {"stays", "resets"} : backlog' = Append(backlog, kind)
    /\ UNCHANGED <<listener, spawned>>
    /\ UNCHANGED <<now, GENERATION_NUMBER, GENERATION_NUMBER_INIT>>
    /\ UNCHANGED <<nfsVars, fhVars, dirVars, connVars, fileVars, mountVars, extVars>>

\* what accept() and peer_addr() give for a connection: both succeed for a
\* connection that stays; for one that was reset, accept() may fail, or
\* accept() succeeds and peer_addr() fails, or the reset arrives later
AcceptOutcomes(kind) ==
    IF kind = "resets" THEN {"accept_err", "peer_addr_err", "ok"} ELSE {"ok"}

\* one iteration of the loop of handle_forever: accept().await?, then
\* peer_addr().unwrap(), then tokio::spawn(process_socket)
Accept ==
    /\ listener = "accepting"
    /\ backlog # <<>>
    /\ backlog' = Tail(backlog)
    /\ \E outcome \in AcceptOutcomes(Head(backlog)) :
          IF outcome = "accept_err"
          THEN listener' = "returned_err" /\ UNCHANGED spawned
          ELSE IF outcome = "peer_addr_err"
          THEN listener' = "panicked" /\ UNCHANGED spawned
          ELSE spawned' = Append(spawned, "running") /\ UNCHANGED listener
    /\ UNCHANGED <<now, GENERATION_NUMBER, GENERATION_NUMBER_INIT>>
    /\ UNCHANGED <<nfsVars, fhVars, dirVars, connVars, fileVars, mountVars, extVars>>

\* a spawned process_socket task ends, with Ok or with Err; the result is
\* dropped (let _ = process_socket(...))
ConnectionEnds ==
    /\ \E k \in DOMAIN spawned, result \in {"Ok", "Err"} :
          /\ spawned[k] = "running"
          /\ spawned' = [spawned EXCEPT ![k] = result]
    /\ UNCHANGED <<listener, backlog>>
    /\ UNCHANGED <<now, GENERATION_NUMBER, GENERATION_NUMBER_INIT>>
    /\ UNCHANGED <<nfsVars, fhVars, dirVars, connVars, fileVars, mountVars, extVars>>

InitListen ==
    /\ InitCommon
    /\ mount_signal = "None"
    /\ capabilities = "ReadWrite"
    /\ overflow_checks = FALSE
    /\ dir = <<>>

NextListen == ClientConnect \/ Accept \/ ConnectionEnds

SpecListen == InitListen /\ [][NextListen]_vars

\* C13: nothing a client does (here: connecting, resetting the connection
\* right after connecting, making a connection task fail) ends the accept
\* loop: the listener keeps accepting
C13_ListenerKeepsAccepting == listener = "accepting"

\* the call reached the back-end mutation of a mutating procedure as far as
\* its arguments go: writable back-end, arguments decode, handles accepted,
\* WRITE count equal to the data length, no GUARDED create of an existing
\* name and no mismatching SETATTR guard
MutationDue ==
    /\ Replied(MutatingProcs)
    /\ capabilities = "ReadWrite"
    /\ call.a.decodes
    /\ call.a.how_decodes
    /\ fh_to_id(call.a.fh).ok
    /\ call.proc = 14 => fh_to_id(call.a.fh2).ok
    /\ call.proc = 7 => call.a.count = call.a.datalen
    /\ call.proc = 8 => ~(call.a.mode = "GUARDED" /\ call.o.lookup.ok)
    /\ call.proc = 2 => call.a.guard # "mismatch"

\* one of the attribute reads around the mutation failed
AttrReadFails ==
    \/ ~call.o.ga1.ok
    \/ call.proc # 2 /\ call.proc # 7 /\ ~call.o.ga2.ok
    \/ call.proc = 14 /\ (~call.o.ga3.ok \/ ~call.o.ga4.ok)

MutationInvoked ==
    \E k \in DOMAIN call.res.backend :
       call.res.backend[k].op \notin {"getattr", "lookup"}

\* C14: in every mutating procedure a failed pre-op or post-op getattr does
\* not fail the call: the back-end mutation is still invoked and the reply
\* status is the result of the mutation
C14_AttrFailureOnlyVoidsSlot ==
    (MutationDue /\ AttrReadFails) =>
        /\ MutationInvoked
        /\ StatusOf(call.res) = (IF call.o.res.ok THEN "NFS3_OK" ELSE call.o.res.err)

\* the nfsstat3 values in the bytes produced for the call, in order
StatusesOf(out) ==
    LET stats == SelectSeq(out, LAMBDA item : item.t = "nfsstat3") IN
    [k \in DOMAIN stats |-> stats[k].v]

\* C15: a SETATTR that reaches the guard (writable back-end, arguments
\* decode, handle accepted, current attributes read) is answered with
\* NFS3ERR_NOT_SYNC when its sattrguard ctime differs from the ctime of the
\* object, and with the result of the back-end setattr when it has no guard
\* or a matching one; that status is the one status of the answer
C15_GuardMismatchNotSync ==
    (/\ Replied({2})
     /\ capabilities = "ReadWrite"
     /\ call.a.decodes
     /\ fh_to_id(call.a.fh).ok
     /\ call.o.ga1.ok) =>
        StatusesOf(call.res.out) =
           IF call.a.guard = "mismatch" THEN <<"NFS3ERR_NOT_SYNC">>
           ELSE IF call.o.res.ok THEN <<"NFS3_OK">>
           ELSE <<call.o.res.err>>

\* the result of the back-end operation a procedure relies on: getattr for
\* GETATTR, ACCESS, FSSTAT, FSINFO and PATHCONF, readdir for READDIR and
\* READDIRPLUS, and for the others the operation of the same name
PrimaryResult ==
    IF call.proc \in {1, 4, 18, 19, 20} THEN call.o.ga1
    ELSE IF call.proc \in {16, 17} THEN call.o.dir
    ELSE call.o.res

PrimaryOps ==
    IF call.proc \in {1, 4, 18, 19, 20} THEN {"getattr"}
    ELSE {"lookup", "read", "write", "readdir", "readlink", "setattr", "create",
          "create_exclusive", "mkdir", "symlink", "remove", "rename"}
         \ (IF call.proc = 3 THEN {} ELSE {"lookup"})

\* C16: when the back-end operation a procedure relies on is invoked and
\* fails with an nfsstat3 value e, the status of the reply is e
C16_BackendErrorVerbatim ==
    (/\ Replied(HandleProcs)
     /\ \E k \in DOMAIN call.res.backend : call.res.backend[k].op \in PrimaryOps
     /\ ~PrimaryResult.ok) =>
        StatusOf(call.res) = PrimaryResult.err

\* a WRITE on a writable back-end whose arguments decode and whose count
\* differs from the length of its data
WriteCountMismatch ==
    /\ Replied({7})
    /\ capabilities = "ReadWrite"
    /\ call.a.decodes
    /\ call.a.count # call.a.datalen

\* C17: a WRITE on a read-write back-end whose count differs from the
\* length of the supplied data is answered with one accepted reply
\* GARBAGE_ARGS for its xid and nothing else, and no back-end operation
\* (neither getattr nor write) is invoked
C17_CountMismatchGarbageArgs ==
    WriteCountMismatch =>
        /\ Len(call.res.out) = 1
        /\ call.res.out[1].t = "rpc_msg"
        /\ call.res.out[1].xid = call.xid
        /\ call.res.out[1].reply_stat = "MSG_ACCEPTED"
        /\ call.res.out[1].stat = "GARBAGE_ARGS"
        /\ ~call.res.err
        /\ call.res.backend = <<>>

\* a WRITE of 2 bytes announced as 3 with a handle the engine would accept
C17_Witness ==
    /\ WriteCountMismatch
    /\ call.a.count = 3
    /\ call.a.datalen = 2
    /\ fh_to_id(call.a.fh).ok
    /\ call.o.res.ok

(***************************************************************************)
(* The regular file of the mirror back-end (examples/mirrorfs.rs,          *)
(* src/fs_util.rs): READ, WRITE and SETATTR served on one existing file.   *)
(***************************************************************************)
MaxOffset == 2

\* stands for 2^32: the seconds and nanoseconds of a timestamp are cast to
\* u32; like 2^32 it lies above every nanosecond count
U32Modulus == 1073741824
\* stands for 2^64: offsets are u64
U64Modulus == UsizeModulus

\* the host's clock, in the seconds and nanoseconds a timestamp is made of
HostTime == [seconds |-> now \div 1000, nseconds |-> (now % 1000) * 1000000]

TimeLe(t1, t2) ==
    \/ t1.seconds < t2.seconds
    \/ t1.seconds = t2.seconds /\ t1.nseconds <= t2.nseconds

Max(x, y) == IF x >= y THEN x ELSE y

Zeros(n) == [i \in 1..n |-> 0]

\* the attributes of the file as the NFS types carry them
metadata_to_fattr3(f) ==
    fattr3(Len(f.data),
           nfstime3(f.mtime.seconds % U32Modulus, f.mtime.nseconds % U32Modulus),
           nfstime3(f.ctime.seconds % U32Modulus, f.ctime.nseconds % U32Modulus))

\* getattr re-stats the path and answers with the refreshed attributes
MirrorFS_getattr(f) == Ok(metadata_to_fattr3(f))

\* the content after write_all(data) at the position seek(offset) left: a
\* gap between the old end and offset reads as zeros; an empty slice
\* issues no write and leaves the file as it is
Overwrite_mutant(old, offset, data) == old \o data
Overwrite(old, offset, data) ==
    IF Len(data) = 0 THEN old
    ELSE LET padded == IF Len(old) >= offset THEN old
                       ELSE old \o Zeros(offset - Len(old)) IN
         SubSeq(padded, 1, offset) \o data
            \o SubSeq(padded, offset + Len(data) + 1, Len(padded))

\* open(create, no truncate), seek, write_all, flush, sync_all, metadata;
\* opened is FALSE when the open or the seek fails
MirrorFS_write(f, offset, data, opened) ==
    IF ~opened THEN [res |-> Err("NFS3ERR_IO"), file |-> f]
    ELSE LET g == IF Len(data) = 0 THEN f
                  ELSE [data |-> Overwrite(f.data, offset, data),
                        mtime |-> HostTime, ctime |-> HostTime] IN
         [res |-> Ok(metadata_to_fattr3(g)), file |-> g]

\* the (bytes, eof) pair of a read, or a panic: offset + count is a u64
\* addition, and end - start a u64 subtraction whose wrapped value no
\* allocation can satisfy
MirrorFS_read(f, offset, count, checks) ==
    LET len == Len(f.data)
        sum == offset + count
        end0 == sum % U64Modulus
        eof == end0 >= len
        start == IF offset >= len THEN len ELSE offset
        end == IF end0 > len THEN len ELSE end0 IN
    IF sum >= U64Modulus /\ checks THEN [panic |-> TRUE, res |-> Err("NFS3ERR_IO")]
    ELSE IF end < start THEN [panic |-> TRUE, res |-> Err("NFS3ERR_IO")]
    ELSE [panic |-> FALSE,
          res |-> Ok([bytes |-> SubSeq(f.data, start + 1, end), eof |-> eof])]

\* path_setattr: the modification time first, then set_len, which stamps
\* the file again; set_len past the end extends the file with zeros.
\* mtime is a set_mtime (how, and the client's time), size a set_size3
path_setattr(f, mtime, size) ==
    LET timed == IF mtime.how = "DONT_CHANGE" THEN f
                 ELSE [f EXCEPT !.mtime = IF mtime.how = "SET_TO_SERVER_TIME"
                                          THEN HostTime ELSE mtime.time,
                                !.ctime = HostTime] IN
    IF ~size.set THEN timed
    ELSE [data |-> IF size.size <= Len(f.data) THEN SubSeq(f.data, 1, size.size)
                   ELSE f.data \o Zeros(size.size - Len(f.data)),
          mtime |-> HostTime, ctime |-> HostTime]

MirrorFS_setattr(f, mtime, size) ==
    LET g == path_setattr(f, mtime, size) IN
    [res |-> Ok(metadata_to_fattr3(g)), file |-> g]

Invoked(res, op) == \E i \in DOMAIN res.backend : res.backend[i].op = op

\* the handles a client of the file presents: the one the server minted
\* and an empty one
FileFhs == {id_to_fh(1), <<>>}
ClientTimes == {nfstime3(0, 0), nfstime3(5, 0)}
SetMtimes ==
    {[how |-> "DONT_CHANGE", time |-> nfstime3(0, 0)],
     [how |-> "SET_TO_SERVER_TIME", time |-> nfstime3(0, 0)]}
    \cup {[how |-> "SET_TO_CLIENT_TIME", time |-> t] : t \in ClientTimes}
SetSizes == {[set |-> FALSE, size |-> 0]} \cup {[set |-> TRUE, size |-> n] : n \in 0..1}
WriteInputs == {<<>>, <<1>>, <<2, 2>>}
ReadOffsets == (0..(MaxOffset + 2)) \cup {U64Modulus - 2, U64Modulus - 1}

\* one worker runs handle_nfs on a call about the file; res is the
\* handler's result and newfile the file the back-end leaves
ServeFile(xid, proc, a, o, res, newfile) ==
    /\ pc = "idle"
    /\ pc' = "replied"
    /\ call' = [xid |-> xid, prog |-> NFS_PROGRAM, vers |-> NFS_VERSION,
                proc |-> proc, a |-> a,
                res |-> res, gennum |-> get_generation_number, o |-> o]
    /\ file' = newfile
    /\ IF ReadsGeneration(NFS_VERSION, proc, a, capabilities)
       THEN GenTouched ELSE GenUntouched
    /\ UNCHANGED <<now, capabilities, overflow_checks>>
    /\ UNCHANGED fhVars
    /\ UNCHANGED <<connVars, listenVars, mountVars, extVars>>
    /\ UNCHANGED dirVars

FileWrite ==
    /\ pc = "idle"
    /\ \E xid \in XidInputs, fh \in FileFhs, offset \in 0..MaxOffset,
          data \in WriteInputs, opened \in BOOLEAN :
        LET a == [NoArgs EXCEPT !.fh = fh, !.offset = offset,
                                !.count = Len(data), !.datalen = Len(data)]
            w == MirrorFS_write(file, offset, data, opened)
            o == [NoOracle EXCEPT !.ga1 = MirrorFS_getattr(file), !.res = w.res]
            res == handle_nfs(xid, NFS_VERSION, 7, a, o, capabilities,
                              overflow_checks) IN
        ServeFile(xid, 7, a, o, res,
                  IF Invoked(res, "write") THEN w.file ELSE file)

FileRead ==
    /\ pc = "idle"
    /\ \E xid \in XidInputs, fh \in FileFhs, offset \in ReadOffsets,
          count \in 0..MaxOffset :
        LET a == [NoArgs EXCEPT !.fh = fh, !.offset = offset, !.count = count]
            r == MirrorFS_read(file, offset, count, overflow_checks)
            o == [NoOracle EXCEPT !.ga1 = MirrorFS_getattr(file), !.res = r.res]
            res == handle_nfs(xid, NFS_VERSION, 6, a, o, capabilities,
                              overflow_checks) IN
        ServeFile(xid, 6, a, o,
                  IF Invoked(res, "read") /\ r.panic
                  THEN Panic(<<>>, res.backend) ELSE res,
                  file)

FileSetattr ==
    /\ pc = "idle"
    /\ \E xid \in XidInputs, fh \in FileFhs,
          mtime \in SetMtimes, size \in SetSizes :
        LET a == [NoArgs EXCEPT !.fh = fh]
            w == MirrorFS_setattr(file, mtime, size)
            o == [NoOracle EXCEPT !.ga1 = MirrorFS_getattr(file), !.res = w.res]
            res == handle_nfs(xid, NFS_VERSION, 2, a, o, capabilities,
                              overflow_checks) IN
        ServeFile(xid, 2, a, o, res,
                  IF Invoked(res, "setattr") THEN w.file ELSE file)

InitFile ==
    /\ InitCommon
    /\ mount_signal = "None"
    /\ capabilities = "ReadWrite"
    /\ overflow_checks \in BOOLEAN
    /\ dir = <<>>

NextFile == Tick \/ NextCall \/ FileWrite \/ FileRead \/ FileSetattr

SpecFile == InitFile /\ [][NextFile]_vars

(***************************************************************************)
(* Claims about the file                                                   *)
(***************************************************************************)
\* a step in which a WRITE on the file is answered NFS3_OK
WriteSucceeds ==
    /\ pc = "idle"
    /\ pc' = "replied"
    /\ call'.proc = 7
    /\ StatusOf(call'.res) = "NFS3_OK"

\* the WRITE3resok of the answered call
WriteResok(c) == c.res.out[3].v

ReadResok(c) == c.res.out[3].v

\* the bytes a READ of count bytes at offset owes from a file
ExpectedRead(f, offset, count) ==
    IF offset >= Len(f.data) THEN <<>>
    ELSE SubSeq(f.data, offset + 1, offset + Min(count, Len(f.data) - offset))

\* C19: for every file size, offset and count, READ returns no data and
\* eof = true when offset >= size, and otherwise the min(count, size - offset)
\* bytes at offset with eof = true exactly when offset + returned length =
\* size; the count of the reply is the returned length
C19_ReadSemantics ==
    (/\ pc = "replied"
     /\ call.proc = 6
     /\ Invoked(call.res, "read")) =>
        LET size == Len(file.data)
            offset == call.a.offset
            expected == ExpectedRead(file, offset, call.a.count) IN
        /\ ~call.res.panic
        /\ StatusOf(call.res) = "NFS3_OK"
        /\ ReadResok(call).data = expected
        /\ ReadResok(call).eof =
              (IF offset >= size THEN TRUE ELSE offset + Len(expected) = size)
        /\ ReadResok(call).count = Len(expected)

(***************************************************************************)
(* Program dispatch (src/rpcwire.rs 30-75): one CALL of RPC version 2      *)
(* handed to handle_rpc.                                                   *)
(***************************************************************************)
\* a program number handle_rpc does not serve
NFS_ACL_PROGRAM == 100227

ProgInputs == {NFS_PROGRAM, PORTMAP_PROGRAM, MOUNT_PROGRAM, NFS_ACL_PROGRAM}
VersInputs == 1..4
\* NULL, MNT or SET, DUMP or UNSET, GETPORT or UMNT, UMNTALL, EXPORT, MKNOD,
\* LINK, COMMIT, and procedure numbers no program has
DispatchProcs == {0, 1, 2, 3, 4, 5, 11, 15, 21, 22, 30}

Dispatch ==
    /\ pc = "idle"
    /\ \E xid \in XidInputs, prog \in ProgInputs, vers \in VersInputs,
          proc \in DispatchProcs, dec \in BOOLEAN,
          lookup \in {Ok(RootDir), Err("NFS3ERR_NOENT")} :
        LET a == [NoArgs EXCEPT !.decodes = dec, !.fh = MakeFh(StartMs, RootDir)]
            o == [NoOracle EXCEPT !.lookup = lookup]
            input == Encode(CallMsg(xid, prog, vers, proc, a)) IN
        /\ call' = [xid |-> xid, prog |-> prog, vers |-> vers, proc |-> proc,
                    a |-> a,
                    res |-> handle_rpc(input, o, capabilities, overflow_checks),
                    gennum |-> get_generation_number, o |-> o]
        /\ IF RpcReadsGeneration(input, o, capabilities)
           THEN GenTouched ELSE GenUntouched
    /\ pc' = "replied"
    /\ UNCHANGED <<now, capabilities, overflow_checks>>
    /\ UNCHANGED fhVars
    /\ UNCHANGED <<connVars, listenVars, fileVars, mountVars, extVars>>
    /\ UNCHANGED dirVars

InitRpc ==
    /\ InitCommon
    /\ mount_signal = "None"
    /\ capabilities \in {"ReadOnly", "ReadWrite"}
    /\ overflow_checks \in BOOLEAN
    /\ dir = <<>>

NextRpc == Tick \/ NextCall \/ Dispatch

SpecRpc == InitRpc /\ [][NextRpc]_vars

\* the version a served program is served at
ServedVersion(prog) ==
    IF prog = PORTMAP_PROGRAM THEN PORTMAP_VERSION
    ELSE IF prog = MOUNT_PROGRAM THEN MOUNT_VERSION
    ELSE NFS_VERSION

\* C20: a CALL to portmap, mount or NFS whose vers is not the served
\* version is answered with one accepted reply PROG_MISMATCH with low =
\* high = the served version, and no procedure runs: no back-end call and
\* no mount signal
C20_VersionMismatch ==
    (/\ pc = "replied"
     /\ call.prog \in {PORTMAP_PROGRAM, MOUNT_PROGRAM, NFS_PROGRAM}
     /\ call.vers # ServedVersion(call.prog)) =>
        /\ ~call.res.err
        /\ call.res.out = <<prog_mismatch_reply_message(call.xid,
                                                         ServedVersion(call.prog))>>
        /\ call.res.backend = <<>>

(***************************************************************************)
(* Claims C21 to C30                                                       *)
(***************************************************************************)
\* the RPC versions, credential flavors and credential bodies a CALL carries
RpcversInputs == 1..3
FlavorInputs == {"AUTH_NULL", "AUTH_UNIX", "unknown"}

\* one CALL handed to handle_rpc, its header chosen freely
DispatchHeader ==
    /\ pc = "idle"
    /\ \E xid \in XidInputs, prog \in ProgInputs, vers \in {2, 3},
          proc \in {0, 1}, rpcvers \in RpcversInputs, flavor \in FlavorInputs,
          cred_decodes \in BOOLEAN, lookup \in {Ok(RootDir), Err("NFS3ERR_NOENT")} :
        LET a == [NoArgs EXCEPT !.fh = MakeFh(StartMs, RootDir)]
            o == [NoOracle EXCEPT !.lookup = lookup, !.ga1 = Ok(A1)]
            m == [CallMsg(xid, prog, vers, proc, a) EXCEPT
                     !.rpcvers = rpcvers, !.flavor = flavor,
                     !.cred_decodes = cred_decodes]
            input == Encode(m) IN
        /\ call' = [xid |-> xid, prog |-> prog, vers |-> vers, proc |-> proc,
                    a |-> a,
                    res |-> handle_rpc(input, o, capabilities, overflow_checks),
                    gennum |-> get_generation_number, o |-> o,
                    rpcvers |-> rpcvers, flavor |-> flavor,
                    cred_decodes |-> cred_decodes]
        /\ IF RpcReadsGeneration(input, o, capabilities)
           THEN GenTouched ELSE GenUntouched
    /\ pc' = "replied"
    /\ UNCHANGED <<now, capabilities, overflow_checks>>
    /\ UNCHANGED fhVars
    /\ UNCHANGED <<connVars, listenVars, fileVars, mountVars, extVars>>
    /\ UNCHANGED dirVars

NextHdr == Tick \/ NextCall \/ DispatchHeader

SpecHdr == InitRpc /\ [][NextHdr]_vars

\* C21: a CALL whose rpcvers is not 2 is answered with the denied reply
\* RPC_MISMATCH for its xid, whatever its prog, vers, proc and credentials,
\* and no program handler or back-end operation runs for it
C21_RpcMismatch ==
    (/\ pc = "replied"
     /\ call.rpcvers # 2) =>
        /\ ~call.res.err
        /\ Len(call.res.out) = 1
        /\ call.res.out[1].t = "rpc_msg"
        /\ call.res.out[1].xid = call.xid
        /\ call.res.out[1].reply_stat = "MSG_DENIED"
        /\ call.res.out[1].stat = "RPC_MISMATCH"
        /\ call.res.backend = <<>>

\* the procedures of a served program that the server does not implement
Unsupported(prog, proc) ==
    \/ prog = NFS_PROGRAM /\ (proc \in {11, 15, 21} \/ proc > 21)
    \/ prog = PORTMAP_PROGRAM /\ proc \notin {0, 3}
    \/ prog = MOUNT_PROGRAM /\ proc \notin {0, 1, 3, 4, 5}

\* C22: a call, at the served version, to an NFS procedure among MKNOD,
\* LINK, COMMIT and the numbers above 21, to a portmap procedure other
\* than NULL and GETPORT, or to mount DUMP or an unknown mount procedure is
\* answered with the accepted reply PROC_UNAVAIL for its xid and nothing
\* else, and the back-end is not invoked
C22_ProcUnavail ==
    (/\ pc = "replied"
     /\ Unsupported(call.prog, call.proc)
     /\ call.vers = ServedVersion(call.prog)) =>
        /\ ~call.res.err
        /\ ~call.res.panic
        /\ Len(call.res.out) = 1
        /\ call.res.out[1].t = "rpc_msg"
        /\ call.res.out[1].xid = call.xid
        /\ call.res.out[1].reply_stat = "MSG_ACCEPTED"
        /\ call.res.out[1].stat = "PROC_UNAVAIL"
        /\ call.res.backend = <<>>

\* a mount DUMP at version 3 has been answered PROC_UNAVAIL
C22_Witness ==
    /\ pc = "replied"
    /\ call.prog = MOUNT_PROGRAM
    /\ call.proc = 2
    /\ call.vers = MOUNT_VERSION
    /\ call.res.out[1].stat = "PROC_UNAVAIL"

(***************************************************************************)
(* The mount program and its event sink (src/mount_handlers.rs,            *)
(* src/tcp.rs 186-188)                                                     *)
(***************************************************************************)
MaxMounts == 3

\* the values the handlers hand to chan.send, in the order they send them
SignalsOf_mutant(res) == <<>>
SignalsOf(res) ==
    LET F[k \in 0..Len(res.backend)] ==
            IF k = 0 THEN <<>>
            ELSE IF res.backend[k].op = "mount_signal"
                 THEN Append(F[k - 1], res.backend[k].id = 1)
                 ELSE F[k - 1] IN
    F[Len(res.backend)]

\* `if let Some(ref chan) = context.mount_signal { let _ = chan.send(v).await }`:
\* the value reaches the receiver of an installed sender; without a sender
\* nothing is sent, and a send to a dropped receiver fails and is ignored
Delivered(signal, res) == IF signal = "Some" THEN SignalsOf(res) ELSE <<>>

\* the mount-program calls a client makes: a procedure number, and for MNT
\* and UMNT whether the dirpath decodes, and for MNT what it resolves to
MountInputs ==
    {[proc |-> p, decodes |-> TRUE, lookup |-> Err("NFS3ERR_NOENT")] : p \in 0..5}
    \cup {[proc |-> p, decodes |-> FALSE, lookup |-> Err("NFS3ERR_NOENT")] : p \in {1, 3}}
    \cup {[proc |-> 1, decodes |-> TRUE, lookup |-> Ok(RootDir)]}

\* one mount-program call handed to handle_rpc
MountCall ==
    /\ pc = "idle"
    /\ Len(mount_log) < MaxMounts
    /\ \E m \in MountInputs :
        LET xid == Len(mount_log) + 1
            a == [NoArgs EXCEPT !.decodes = m.decodes]
            o == [NoOracle EXCEPT !.lookup = m.lookup]
            input == Encode(CallMsg(xid, MOUNT_PROGRAM, MOUNT_VERSION, m.proc, a))
            res == handle_rpc(input, o, capabilities, overflow_checks) IN
        /\ call' = [xid |-> xid, prog |-> MOUNT_PROGRAM, vers |-> MOUNT_VERSION,
                    proc |-> m.proc, a |-> a, res |-> res,
                    gennum |-> get_generation_number, o |-> o]
        /\ sink' = sink \o Delivered(mount_signal, res)
        /\ mount_log' = Append(mount_log,
                               [proc |-> m.proc, a |-> a, o |-> o, res |-> res])
        /\ IF RpcReadsGeneration(input, o, capabilities)
           THEN GenTouched ELSE GenUntouched
    /\ pc' = "replied"
    /\ UNCHANGED <<now, capabilities, overflow_checks, mount_signal>>
    /\ UNCHANGED fhVars
    /\ UNCHANGED <<connVars, listenVars, fileVars, extVars>>
    /\ UNCHANGED dirVars

InitMount ==
    /\ InitCommon
    /\ mount_signal \in {"None", "Some", "Closed"}
    /\ capabilities = "ReadWrite"
    /\ overflow_checks = FALSE
    /\ dir = <<>>

NextMount == Tick \/ NextCall \/ MountCall

SpecMount == InitMount /\ [][NextMount]_vars

\* the mountstat3 of an answered mount call, "none" when it carries none
MountStatusOf(res) ==
    IF Len(res.out) >= 2 /\ res.out[2].t = "mountstat3" THEN res.out[2].v ELSE "none"

\* the arguments of the call decode: MNT and UMNT read a dirpath, the other
\* procedures read nothing
ArgsDecode(c) == c.proc \in {1, 3} => c.a.decodes

\* the answered calls of the log that satisfy a condition on proc and result
MntOk == {i \in DOMAIN mount_log :
            mount_log[i].proc = 1 /\ MountStatusOf(mount_log[i].res) = "MNT3_OK"}
Unmounts == {i \in DOMAIN mount_log : mount_log[i].proc \in {3, 4}
                                      /\ ArgsDecode(mount_log[i])}
SinkValues(v) == {i \in DOMAIN sink : sink[i] = v}

VerfItems(out) == {i \in DOMAIN out : out[i].t = "cookieverf3"}

\* C24: the outcome of READDIR and READDIRPLUS does not depend on the
\* incoming cookieverf: the call answered with any other verifier gives the
\* same result; the status is NFS3ERR_BAD_COOKIE only when the back-end
\* said so; and a success reply returns one verifier, made of the seconds
\* and nanoseconds of the directory's mtime, or zero when the directory's
\* getattr failed
C24_VerifierIgnored ==
    (/\ pc = "replied"
     /\ call.proc \in {16, 17}) =>
        /\ \A v \in VerfInputs :
              handle_nfs(call.xid, call.vers, call.proc,
                         [call.a EXCEPT !.cookieverf = v], call.o,
                         capabilities, overflow_checks) = call.res
        /\ StatusOf(call.res) = "NFS3ERR_BAD_COOKIE" =>
              /\ ~call.o.dir.ok
              /\ call.o.dir.err = "NFS3ERR_BAD_COOKIE"
        /\ (~call.res.panic /\ StatusOf(call.res) = "NFS3_OK") =>
              /\ Cardinality(VerfItems(call.res.out)) = 1
              /\ \A i \in VerfItems(call.res.out) :
                    call.res.out[i].v =
                       IF call.o.ga1.ok
                       THEN [hi |-> call.o.ga1.val.mtime.seconds,
                             lo |-> call.o.ga1.val.mtime.nseconds]
                       ELSE [hi |-> 0, lo |-> 0]

\* a READDIRPLUS sent with the verifier of a directory since modified has
\* been answered NFS3_OK with entries and the directory's current verifier
C24_Witness ==
    /\ pc = "replied"
    /\ call.proc = 17
    /\ call.a.cookieverf = [hi |-> 9, lo |-> 1]
    /\ call.o.ga1.ok
    /\ ~call.res.panic
    /\ StatusOf(call.res) = "NFS3_OK"
    /\ EntriesOf(call.res.out) # <<>>
    /\ \E i \in VerfItems(call.res.out) :
          call.res.out[i].v = [hi |-> 10, lo |-> 0]

(***************************************************************************)
(* Record marking on output (src/rpcwire.rs 116-129).  A length is kept as *)
(* the two 16-bit halves of a u32, so that 1 << 31 and the sum with it     *)
(* keep their width.                                                       *)
(***************************************************************************)
MaxBufLen == 3

Half == 65536
U32Of(hi, lo) == [hi |-> hi, lo |-> lo]
\* a reply buffer: its bytes, or for a buffer too long to write down its
\* length alone
Bytes(b) == [kind |-> "bytes", bytes |-> b]
Long(hi, lo) == [kind |-> "long", len |-> U32Of(hi, lo)]
\* buf.len() as u32
BufLen(buf) ==
    IF buf.kind = "bytes" THEN U32Of(Len(buf.bytes) \div Half, Len(buf.bytes) % Half)
    ELSE buf.len
\* w + (1 << 31), wrapping
PlusLastFlag(w) == U32Of((w.hi + 32768) % Half, w.lo)
u32_to_be_bytes(w) == <<w.hi \div 256, w.hi % 256, w.lo \div 256, w.lo % 256>>

\* assert!(buf.len() < (1 << 31)), then write_all(header), write_all(buf);
\* sock_ok tells whether the socket takes the writes
write_fragment_mutant(buf, sock_ok) ==
    [panic |-> FALSE, err |-> FALSE, written |-> <<u32_to_be_bytes(BufLen(buf)), buf>>]
write_fragment(buf, sock_ok) ==
    IF BufLen(buf).hi >= 32768 THEN [panic |-> TRUE, err |-> FALSE, written |-> <<>>]
    ELSE IF ~sock_ok THEN [panic |-> FALSE, err |-> TRUE, written |-> <<>>]
    ELSE [panic |-> FALSE, err |-> FALSE,
          written |-> <<u32_to_be_bytes(PlusLastFlag(BufLen(buf))), buf>>]

RECURSIVE SeqsUpTo(_, _)
SeqsUpTo(S, n) ==
    IF n = 0 THEN {<<>>}
    ELSE LET shorter == SeqsUpTo(S, n - 1) IN
         shorter \cup {Append(q, x) : q \in shorter, x \in S}

BufInputs ==
    {Bytes(b) : b \in SeqsUpTo({0, 255}, MaxBufLen)}
    \cup {Long(hi, lo) : hi \in {0, 1, 255, 256, 32767, 32768, 65535},
                         lo \in {4, 255, 256, 65535}}

WriteFragment ==
    /\ \E buf \in BufInputs, sock_ok \in BOOLEAN :
          wire' = [op |-> "write_fragment", buf |-> buf, sock_ok |-> sock_ok,
                   res |-> write_fragment(buf, sock_ok)]
    /\ UNCHANGED <<binding, live, race, fsmap>>
    /\ UNCHANGED <<now, GENERATION_NUMBER, GENERATION_NUMBER_INIT>>
    /\ UNCHANGED <<nfsVars, fhVars, dirVars, connVars, listenVars, fileVars, mountVars>>

InitWire ==
    /\ InitCommon
    /\ mount_signal = "None"
    /\ capabilities = "ReadWrite"
    /\ overflow_checks = FALSE
    /\ dir = <<>>


\* C25: for a reply buffer of n < 2^31 bytes on a socket that takes the
\* writes, write_fragment transmits the 4 bytes of a big-endian header
\* whose bit 31 is set and whose bits 30..0 are n, then the buffer
\* unchanged, and nothing else
C25_OneFragment ==
    (/\ wire.op = "write_fragment"
     /\ wire.sock_ok
     /\ BufLen(wire.buf).hi < 32768) =>
        LET n == BufLen(wire.buf)
            w == wire.res.written IN
        /\ ~wire.res.panic
        /\ ~wire.res.err
        /\ Len(w) = 2
        /\ Len(w[1]) = 4
        /\ w[1][1] >= 128
        /\ (w[1][1] - 128) * 256 + w[1][2] = n.hi
        /\ w[1][3] * 256 + w[1][4] = n.lo
        /\ w[2] = wire.buf

\* a buffer of 2^31 - 1 bytes has been sent with the header ff ff ff ff
C25_Witness ==
    /\ wire.op = "write_fragment"
    /\ wire.sock_ok
    /\ wire.buf = Long(32767, 65535)
    /\ wire.res.written[1] = <<255, 255, 255, 255>>

(***************************************************************************)
(* Decoding the tag of an enumeration or of a discriminated union          *)
(* (src/xdr.rs 19-39, src/rpc.rs, src/nfs.rs 439-520).  A decoder fills    *)
(* `self`; the payload of a union arm is taken to decode.                  *)
(***************************************************************************)
DecOk(v) == [ok |-> TRUE, val |-> v, err |-> "none"]
DecErr(e) == [ok |-> FALSE, val |-> "none", err |-> e]

\* the values of nfsstat3 (src/nfs.rs 100-197)
Nfsstat3Values ==
    {0, 1, 2, 5, 6, 13, 17, 18, 19, 20, 21, 22, 27, 28, 30, 31, 63, 66, 69, 70, 71}
    \cup (10001..10008)

\* the tags each type defines
DefinedTags(type) ==
    CASE type \in {"rpc_body", "reply_body", "rejected_reply"} -> {0, 1}
      [] type = "accept_body" -> 0..4
      [] type = "auth_flavor" -> 0..3
      [] type = "nfsstat3" -> Nfsstat3Values
      [] type \in {"createmode3", "set_atime", "set_mtime"} -> 0..2

TagTypes ==
    {"rpc_body", "reply_body", "accept_body", "rejected_reply", "auth_flavor",
     "nfsstat3", "createmode3", "set_atime", "set_mtime"}

\* XDREnumSerde: FromPrimitive::from_u32, InvalidData when it gives None
XDREnumSerde(type, c) ==
    IF c \in DefinedTags(type) THEN DecOk(<<type, c>>) ELSE DecErr("InvalidData")

\* rpc_body, reply_body, rejected_reply: `if c == 0 {..} else if c == 1 {..}`
\* and Ok(()) after it, so another tag leaves self as it was
TwoArmUnion(type, self, c) ==
    IF c \in {0, 1} THEN DecOk(<<type, c>>) ELSE DecOk(self)

\* accept_body: arms for 0 to 3, and GARBAGE_ARGS (4) for everything else
accept_body_deserialize(c) ==
    IF c \in 0..3 THEN DecOk(<<"accept_body", c>>) ELSE DecOk(<<"accept_body", 4>>)

\* set_atime, set_mtime: arms for 0 to 2, InvalidData otherwise
time_how_deserialize(type, c) ==
    IF c \in 0..2 THEN DecOk(<<type, c>>) ELSE DecErr("InvalidData")

deserialize_tag(type, self, c) ==
    CASE type \in {"rpc_body", "reply_body", "rejected_reply"} -> TwoArmUnion(type, self, c)
      [] type = "accept_body" -> accept_body_deserialize(c)
      [] type \in {"set_atime", "set_mtime"} -> time_how_deserialize(type, c)
      [] OTHER -> XDREnumSerde(type, c)

\* the tags a peer sends: the small ones, and values around those of nfsstat3
TagInputs == (0..6) \cup {70, 72, 10000, 10001, 10008, 10009}

\* a value of a type is decoded into a variable holding the type's default
DecodeTag ==
    /\ \E type \in TagTypes, c \in TagInputs :
          wire' = [op |-> "decode_tag", type |-> type, tag |-> c,
                   res |-> deserialize_tag(type, <<type, 0>>, c)]
    /\ UNCHANGED <<binding, live, race, fsmap>>
    /\ UNCHANGED <<now, GENERATION_NUMBER, GENERATION_NUMBER_INIT>>
    /\ UNCHANGED <<nfsVars, fhVars, dirVars, connVars, listenVars, fileVars, mountVars>>

\* C26: decoding an enumeration or a discriminated union from a tag outside
\* its defined set fails with InvalidData and yields no value
C26_UnknownTagRejected ==
    (/\ wire.op = "decode_tag"
     /\ wire.tag \notin DefinedTags(wire.type)) =>
        /\ ~wire.res.ok
        /\ wire.res.err = "InvalidData"

\* C29: a successful FSINFO reply reports rtpref = 1 MiB and wtpref = 1 MiB,
\* maxfilesize = 128 GiB, time_delta = (0 s, 1000000 ns) and the properties
\* FSF_SYMLINK, FSF_HOMOGENEOUS and FSF_CANSETTIME without FSF_LINK, for
\* every handle that decodes
C29_FsinfoValues ==
    (/\ Replied({19})
     /\ StatusOf(call.res) = "NFS3_OK") =>
        /\ Len(call.res.out) = 3
        /\ call.res.out[3].t = "FSINFO3resok"
        /\ LET res == call.res.out[3].v IN
           /\ res.rtpref = 1048576
           /\ res.wtpref = 1048576
           /\ res.maxfilesize_gib = 128
           /\ res.time_delta = nfstime3(0, 1000000)
           /\ res.properties = {"FSF_SYMLINK", "FSF_HOMOGENEOUS", "FSF_CANSETTIME"}

\* the back-end calls that change the exported tree
MutationOps ==
    {"write", "create", "create_exclusive", "setattr", "remove", "rename",
     "mkdir", "symlink"}
\* the positions of the mutations among the back-end calls of a handler
MutationsAt(be) == {i \in 1..Len(be) : be[i].op \in MutationOps}

\* C30: the back-end calls a worker issues for a mutating procedure are the
\* pre-op getattr, then the mutation, then the post-op getattr: it issues
\* no other back-end call between the pre-op read and the mutation nor
\* between the mutation and the post-op read, CREATE with mode GUARDED
\* included
C30_NothingInterleaved ==
    (/\ Replied(MutatingProcs)
     /\ MutationsAt(call.res.backend) # {}) =>
        LET be == call.res.backend IN
        /\ Cardinality(MutationsAt(be)) = 1
        /\ be[1].op = "getattr"
        /\ \A i \in 1..Len(be) : i \notin MutationsAt(be) => be[i].op = "getattr"

(***************************************************************************)
(* Claims C31 to C40                                                       *)
(***************************************************************************)

LookupsAt(be) == {i \in 1..Len(be) : be[i].op = "lookup"}
CreatesAt(be) == {i \in 1..Len(be) : be[i].op \in {"create", "create_exclusive"}}

\* C31: a CREATE with mode GUARDED calls lookup before it creates; when
\* the lookup succeeds the reply is NFS3ERR_EXIST with the directory's
\* wcc_data and back-end create is not invoked; when the lookup fails
\* back-end create is invoked with the supplied sattr3
C31_GuardedCreate ==
    (/\ Replied({8})
     /\ call.a.mode = "GUARDED") =>
        LET be == call.res.backend IN
        /\ \A c \in CreatesAt(be) : \E l \in LookupsAt(be) : l < c
        /\ (LookupsAt(be) # {} /\ call.o.lookup.ok) =>
              /\ CreatesAt(be) = {}
              /\ call.res.out =
                    WccReply(call.xid, "NFS3ERR_EXIST",
                             wcc_data(PreOp(call.o.ga1), PostOp(call.o.ga2)))
        /\ (LookupsAt(be) # {} /\ ~call.o.lookup.ok) =>
              /\ Cardinality(CreatesAt(be)) = 1
              /\ \A c \in CreatesAt(be) :
                    be[c] = BA("create", fh_to_id(call.a.fh).val, call.a.sattr)

\* a guarded create of an existing name has been refused, the directory's
\* attributes before and after in the reply
C31_Witness ==
    /\ Replied({8})
    /\ call.a.mode = "GUARDED"
    /\ call.a.sattr.set_size
    /\ call.o.lookup.ok
    /\ call.o.ga2.ok
    /\ StatusOf(call.res) = "NFS3ERR_EXIST"
    /\ CreatesAt(call.res.backend) = {}

\* ---------------------------------------------------------------------
\* The reader task of a connection, byte by byte (rpcwire.rs 95-193)
\* ---------------------------------------------------------------------

\* s without its first n elements
Drop(s, n) == SubSeq(s, n + 1, Len(s))

\* the longest split of a record into fragments a client uses
MaxFragments == 3

RECURSIVE Splits(_, _)
\* the ways to cut payload s into k consecutive pieces, empty ones included
Splits(s, k) ==
    IF k = 1 THEN {<<s>>}
    ELSE UNION {{<<SubSeq(s, 1, i)>> \o rest :
                    rest \in Splits(SubSeq(s, i + 1, Len(s)), k - 1)} :
                i \in 0..Len(s)}

\* a record fragment on the wire: the header, then the data
FragmentBytes(last, data) ==
    LET n == U32Of(Len(data) \div Half, Len(data) % Half) IN
    u32_to_be_bytes(IF last THEN PlusLastFlag(n) ELSE n) \o data

RECURSIVE RecordBytes(_)
\* the fragments of a record: only the last has the last-fragment bit
RecordBytes(pieces) ==
    IF Len(pieces) = 1 THEN FragmentBytes(TRUE, pieces[1])
    ELSE FragmentBytes(FALSE, Head(pieces)) \o RecordBytes(Tail(pieces))

\* u32::from_be_bytes(header_buf), is_last and length
fragment_header(header_buf) ==
    [is_last |-> header_buf[1] >= 128,
     length |-> (header_buf[1] % 128) * 16777216 + header_buf[2] * 65536
                + header_buf[3] * 256 + header_buf[4]]

\* read_fragment on the bytes the stream still holds: the two read_exact
\* calls fail when the stream ends before they are served
read_fragment(stream, append_to) ==
    IF Len(stream) < 4
    THEN [ok |-> FALSE, is_last |-> FALSE, append_to |-> append_to, stream |-> <<>>]
    ELSE LET h == fragment_header(SubSeq(stream, 1, 4))
             rest == Drop(stream, 4) IN
         IF Len(rest) < h.length
         THEN [ok |-> FALSE, is_last |-> FALSE,
               append_to |-> append_to \o rest \o [i \in 1..(h.length - Len(rest)) |-> 0],
               stream |-> <<>>]
         ELSE [ok |-> TRUE, is_last |-> h.is_last,
               append_to |-> append_to \o SubSeq(rest, 1, h.length),
               stream |-> Drop(rest, h.length)]

\* what std::mem::take(&mut self.cur_fragment) leaves in cur_fragment
mem_take_leaves_mutant(buf) == buf
mem_take_leaves(buf) == <<>>

FirstPayloads == {<<1>>, <<1, 2>>, <<1, 2, 3>>}
SecondPayloads == {<<11>>, <<11, 12>>}
FragmentedRecords(payloads) ==
    UNION {Splits(p, k) : p \in payloads, k \in 1..MaxFragments}

\* a client sends one or two request records, each cut into fragments, and
\* closes its sending side
ClientStream ==
    /\ wire.op = "none"
    /\ \E first \in FragmentedRecords(FirstPayloads),
          second \in {<<>>} \cup FragmentedRecords(SecondPayloads) :
          wire' = [op |-> "reader",
                   records |-> IF second = <<>> THEN <<first>> ELSE <<first, second>>,
                   stream |-> RecordBytes(first)
                              \o (IF second = <<>> THEN <<>> ELSE RecordBytes(second)),
                   cur_fragment |-> <<>>,
                   spawned |-> <<>>,
                   fragments_read |-> 0,
                   running |-> TRUE]
    /\ UNCHANGED <<binding, live, race, fsmap>>
    /\ UNCHANGED <<now, GENERATION_NUMBER, GENERATION_NUMBER_INIT>>
    /\ UNCHANGED <<nfsVars, fhVars, dirVars, connVars, listenVars, fileVars, mountVars>>

\* one SocketMessageHandler::read of the loop of the reader task
ReaderRead ==
    /\ wire.op = "reader"
    /\ wire.running
    /\ LET r == read_fragment(wire.stream, wire.cur_fragment) IN
       wire' = IF ~r.ok
               THEN [wire EXCEPT !.running = FALSE, !.stream = r.stream,
                                 !.cur_fragment = r.append_to]
               ELSE IF r.is_last
               THEN [wire EXCEPT !.stream = r.stream,
                                 !.spawned = Append(@, r.append_to),
                                 !.cur_fragment = mem_take_leaves(r.append_to),
                                 !.fragments_read = @ + 1]
               ELSE [wire EXCEPT !.stream = r.stream,
                                 !.cur_fragment = r.append_to,
                                 !.fragments_read = @ + 1]
    /\ UNCHANGED <<binding, live, race, fsmap>>
    /\ UNCHANGED <<now, GENERATION_NUMBER, GENERATION_NUMBER_INIT>>
    /\ UNCHANGED <<nfsVars, fhVars, dirVars, connVars, listenVars, fileVars, mountVars>>

NextFrag == ClientStream \/ ReaderRead

SpecFrag == InitWire /\ [][NextFrag]_vars

RECURSIVE Concat(_)
Concat(pieces) == IF pieces = <<>> THEN <<>> ELSE Head(pieces) \o Concat(Tail(pieces))

RECURSIVE FragmentsOf(_, _)
\* the number of fragments of the first n records
FragmentsOf(records, n) ==
    IF n = 0 THEN 0 ELSE Len(records[n]) + FragmentsOf(records, n - 1)

\* C32: for a request record cut into k >= 1 fragments, empty ones
\* included, of which only the last has the last-fragment bit, one worker
\* is spawned and it receives the concatenation of the k payloads in
\* order; the accumulation buffer is empty when the next record starts,
\* so no byte of a record appears in the message of another
C32_OneWorkerPerRecord ==
    wire.op = "reader" =>
        LET done == Len(wire.spawned) IN
        /\ done <= Len(wire.records)
        /\ \A i \in 1..done : wire.spawned[i] = Concat(wire.records[i])
        /\ wire.fragments_read >= FragmentsOf(wire.records, done)
        /\ wire.fragments_read = FragmentsOf(wire.records, done) => wire.cur_fragment = <<>>
        /\ done < Len(wire.records) =>
              /\ wire.fragments_read < FragmentsOf(wire.records, done + 1)
              /\ wire.cur_fragment =
                    Concat(SubSeq(wire.records[done + 1], 1,
                                  wire.fragments_read - FragmentsOf(wire.records, done)))
        /\ wire.stream = <<>> => done = Len(wire.records)

\* two records, the first cut into three fragments of which one is empty,
\* have each been handed to a worker
C32_Witness ==
    /\ wire.op = "reader"
    /\ Len(wire.records) = 2
    /\ Len(wire.records[1]) = 3
    /\ <<>> \in {wire.records[1][i] : i \in 1..3}
    /\ Len(wire.records[2]) = 2
    /\ Len(wire.spawned) = 2
    /\ wire.spawned[1] = <<1, 2, 3>>
    /\ wire.spawned[2] = <<11, 12>>

\* ---------------------------------------------------------------------
\* The tasks of one connection and their progress (tcp.rs 31-86,
\* rpcwire.rs 168-193, mount_handlers.rs)
\* ---------------------------------------------------------------------

\* number of requests the client sends on the connection
MaxLiveRequests == 2
\* mpsc::channel(capacity) of the embedder's mount-event sink
SinkCapacity == 1

\* the requests a client sends with transaction id xid: NULL, a NULL with a
\* credential of an unknown flavor, a MNT, a UMNTALL
LiveRequests(xid) ==
    {CallMsg(xid, NFS_PROGRAM, NFS_VERSION, 0, NoArgs),
     [CallMsg(xid, NFS_PROGRAM, NFS_VERSION, 0, NoArgs) EXCEPT !.flavor = "unknown"],
     CallMsg(xid, MOUNT_PROGRAM, MOUNT_VERSION, 1, NoArgs),
     CallMsg(xid, MOUNT_PROGRAM, MOUNT_VERSION, 4, NoArgs)}
\* path_to_id resolves the path of every MNT
LiveOracle == [NoOracle EXCEPT !.lookup = Ok(RootDir)]

LiveClientSend ==
    /\ ~live.client_closed
    /\ live.sent < MaxLiveRequests
    /\ \E m \in LiveRequests(live.sent + 1) :
          live' = [live EXCEPT !.sent = @ + 1, !.socket_in = Append(@, m)]
    /\ UNCHANGED <<wire, binding, race, fsmap>>
    /\ UNCHANGED <<now, GENERATION_NUMBER, GENERATION_NUMBER_INIT>>
    /\ UNCHANGED <<nfsVars, fhVars, dirVars, connVars, listenVars, fileVars, mountVars>>

\* the client disconnects
LiveClientClose ==
    /\ ~live.client_closed
    /\ live' = [live EXCEPT !.client_closed = TRUE]
    /\ UNCHANGED <<wire, binding, race, fsmap>>
    /\ UNCHANGED <<now, GENERATION_NUMBER, GENERATION_NUMBER_INIT>>
    /\ UNCHANGED <<nfsVars, fhVars, dirVars, connVars, listenVars, fileVars, mountVars>>

\* select arm 1 of process_socket: try_read returns bytes, which go to the
\* duplex stream, or 0 at end of stream, and the loop returns Ok(())
LoopRead ==
    /\ live.loop = "running"
    /\ IF live.socket_in # <<>>
       THEN live' = [live EXCEPT !.socket_in = Tail(@),
                                 !.duplex = Append(@, Head(live.socket_in))]
       ELSE /\ live.client_closed
            /\ live' = [live EXCEPT !.loop = "eof"]
    /\ UNCHANGED <<wire, binding, race, fsmap>>
    /\ UNCHANGED <<now, GENERATION_NUMBER, GENERATION_NUMBER_INIT>>
    /\ UNCHANGED <<nfsVars, fhVars, dirVars, connVars, listenVars, fileVars, mountVars>>

\* select arm 2 of process_socket: Some(Err(e)) returns, Some(Ok(msg)) is
\* written to the socket
LoopReply ==
    /\ live.loop = "running"
    /\ live.queue # <<>>
    /\ LET reply == recv(live.queue) IN
       live' = IF ~reply.msg.ok
               THEN [live EXCEPT !.queue = reply.rest, !.loop = "rpc_error"]
               ELSE [live EXCEPT !.queue = reply.rest,
                                 !.socket_out = Append(@, reply.msg.buf)]
    /\ UNCHANGED <<wire, binding, race, fsmap>>
    /\ UNCHANGED <<now, GENERATION_NUMBER, GENERATION_NUMBER_INIT>>
    /\ UNCHANGED <<nfsVars, fhVars, dirVars, connVars, listenVars, fileVars, mountVars>>

\* the reader task: read() takes a record from the duplex stream and spawns
\* its worker; when process_socket has returned and dropped the other half
\* of the stream, read_exact fails and the task ends
LiveReaderRead ==
    /\ live.reader = "running"
    /\ IF live.duplex # <<>>
       THEN live' = [live EXCEPT !.duplex = Tail(@),
                                 !.workers = @ \cup {Head(live.duplex)}]
       ELSE /\ live.loop # "running"
            /\ live' = [live EXCEPT !.reader = "terminated"]
    /\ UNCHANGED <<wire, binding, race, fsmap>>
    /\ UNCHANGED <<now, GENERATION_NUMBER, GENERATION_NUMBER_INIT>>
    /\ UNCHANGED <<nfsVars, fhVars, dirVars, connVars, listenVars, fileVars, mountVars>>

\* chan.send(v).await on the bounded channel of an installed sink completes
\* when the channel has room
SinkTakes(signals) ==
    mount_signal = "Some" => Len(sink) + Len(signals) <= SinkCapacity

\* the worker of the request with transaction id xid: handle_rpc, then
\* `let _ = send.send(..)`, which fails and is ignored once process_socket
\* has dropped the receiver
LiveWorker(xid) ==
    /\ \E m \in live.workers :
          /\ m.xid = xid
          /\ LET input == Encode(m)
                 maybe_reply == handle_rpc(input, LiveOracle, capabilities,
                                           overflow_checks)
                 signals == SignalsOf(maybe_reply)
                 msg == IF maybe_reply.err THEN ErrMsg(input, maybe_reply.out)
                        ELSE OkMsg(input, maybe_reply.out) IN
             /\ SinkTakes(signals)
             /\ sink' = sink \o Delivered(mount_signal, maybe_reply)
             /\ live' = IF live.loop = "running"
                        THEN [live EXCEPT !.workers = @ \ {m},
                                          !.queue = Append(@, msg)]
                        ELSE [live EXCEPT !.workers = @ \ {m},
                                          !.discarded = @ \cup {xid}]
             /\ IF RpcReadsGeneration(input, LiveOracle, capabilities)
                THEN GenTouched ELSE GenUntouched
    /\ UNCHANGED <<wire, binding, race, fsmap>>
    /\ UNCHANGED <<now, mount_signal, mount_log>>
    /\ UNCHANGED <<nfsVars, fhVars, dirVars, connVars, listenVars, fileVars>>

LiveWorkers == \E xid \in 1..MaxLiveRequests : LiveWorker(xid)

\* the embedder takes a value from its sink; nothing obliges it to
EmbedderRecv ==
    /\ mount_signal = "Some"
    /\ sink # <<>>
    /\ sink' = Tail(sink)
    /\ UNCHANGED <<mount_signal, mount_log>>
    /\ UNCHANGED extVars
    /\ UNCHANGED <<now, GENERATION_NUMBER, GENERATION_NUMBER_INIT>>
    /\ UNCHANGED <<nfsVars, fhVars, dirVars, connVars, listenVars, fileVars>>

\* the worker of another connection of the listener, which holds a clone of
\* the same sender, delivers a mount event
OtherConnectionSend ==
    /\ mount_signal = "Some"
    /\ Len(sink) < SinkCapacity
    /\ \E v \in BOOLEAN : sink' = Append(sink, v)
    /\ UNCHANGED <<mount_signal, mount_log>>
    /\ UNCHANGED extVars
    /\ UNCHANGED <<now, GENERATION_NUMBER, GENERATION_NUMBER_INIT>>
    /\ UNCHANGED <<nfsVars, fhVars, dirVars, connVars, listenVars, fileVars>>

NextLive ==
    \/ LiveClientSend
    \/ LiveClientClose
    \/ LoopRead
    \/ LoopReply
    \/ LiveReaderRead
    \/ LiveWorkers
    \/ EmbedderRecv
    \/ OtherConnectionSend

\* the tokio runtime polls every task that can make progress, and select!
\* picks among its ready arms at random
LiveFairness ==
    /\ WF_vars(LoopRead)
    /\ WF_vars(LoopReply)
    /\ WF_vars(LiveReaderRead)
    /\ \A xid \in 1..MaxLiveRequests : WF_vars(LiveWorker(xid))

SpecLive == InitMount /\ [][NextLive]_vars /\ LiveFairness

\* C33: after a client disconnect (the socket read returns end of stream)
\* the processing loop returns, the reader task terminates, and every
\* in-flight worker of the connection completes, its reply discarded; no
\* task of the connection runs forever
C33_DisconnectEndsTasks ==
    live.client_closed ~>
        /\ live.loop # "running"
        /\ live.reader = "terminated"
        /\ live.workers = {}

\* the worker of request xid has been spawned and has not completed
InFlight(xid) == \E m \in live.workers : m.xid = xid
\* a reply with transaction id xid has been written to the socket
ReplyWritten(xid) ==
    \E i \in DOMAIN live.socket_out :
        /\ live.socket_out[i] # <<>>
        /\ live.socket_out[i][1].xid = xid
\* the server has taken the whole record of the well-formed call xid from
\* the socket
CallReceived(xid) ==
    \E i \in DOMAIN live.duplex :
        /\ live.duplex[i].xid = xid
        /\ live.duplex[i].flavor \in KnownFlavors

\* C37: under fair scheduling every well-formed request record completely
\* received on a connection the client keeps open is eventually answered
\* by a reply with its xid written to the socket, whatever else is sent on
\* the connection
C37_EveryRequestAnswered ==
    \A xid \in 1..MaxLiveRequests :
        CallReceived(xid) ~> (ReplyWritten(xid) \/ live.client_closed)

\* C38: every MNT, UMNT and UMNTALL call eventually produces its reply,
\* also when the embedder installed a mount-event sink and does not
\* receive from it
C38_MountCallReplies ==
    \A xid \in 1..MaxLiveRequests :
        (\E m \in live.workers : m.xid = xid /\ m.prog = MOUNT_PROGRAM)
            ~> ~InFlight(xid)

\* ---------------------------------------------------------------------
\* get_generation_number called from several tasks (vfs.rs 47-60)
\* ---------------------------------------------------------------------

\* number of tasks that call id_to_fh, fh_to_id or serverid, and number of
\* calls each makes
MaxTasks == 3
MaxGenCalls == 2

Tasks == 1..MaxTasks

\* the tasks of the process before any call: `running` is the task inside
\* the closure of call_once (0 for none), `returned` the value of each call
\* that returned, in the order they returned
StartRace ==
    [op |-> "generation", running |-> 0, inits |-> 0,
     at |-> [t \in Tasks |-> "idle"], calls |-> [t \in Tasks |-> 0],
     waited |-> [t \in Tasks |-> FALSE], returned |-> <<>>]

\* a call of call_once that arrives while another task runs the closure
\* waits until that task has finished
call_once_waits_mutant(running) == FALSE
call_once_waits(running) == running # 0

\* the process starts its tasks
GenStart ==
    /\ race.op = "none"
    /\ race' = StartRace
    /\ UNCHANGED <<wire, binding, live, fsmap>>
    /\ UNCHANGED <<now, GENERATION_NUMBER, GENERATION_NUMBER_INIT>>
    /\ UNCHANGED <<nfsVars, fhVars, dirVars, connVars, listenVars, fileVars, mountVars>>

\* GENERATION_NUMBER_INIT.call_once(..): a completed Once lets the caller
\* through, a fresh one makes the caller run the closure, and one that is
\* being run makes the caller wait
GenCallOnce(t) ==
    /\ race.op = "generation"
    /\ race.at[t] = "idle"
    /\ race.calls[t] < MaxGenCalls
    /\ IF GENERATION_NUMBER_INIT
       THEN race' = [race EXCEPT !.at[t] = "read"]
       ELSE IF call_once_waits(race.running)
       THEN /\ ~race.waited[t]
            /\ race' = [race EXCEPT !.waited[t] = TRUE]
       ELSE race' = [race EXCEPT !.at[t] = "closure", !.running = t]
    /\ UNCHANGED <<wire, binding, live, fsmap>>
    /\ UNCHANGED <<now, GENERATION_NUMBER, GENERATION_NUMBER_INIT>>
    /\ UNCHANGED <<nfsVars, fhVars, dirVars, connVars, listenVars, fileVars, mountVars>>

\* the closure: GENERATION_NUMBER = SystemTime::now() .. as_millis(), after
\* which the Once is complete
GenClosure(t) ==
    /\ race.op = "generation"
    /\ race.at[t] = "closure"
    /\ GENERATION_NUMBER' = now % U64Modulus
    /\ GENERATION_NUMBER_INIT' = TRUE
    /\ race' = [race EXCEPT !.at[t] = "read", !.running = 0, !.inits = @ + 1]
    /\ UNCHANGED <<wire, binding, live, fsmap>>
    /\ UNCHANGED now
    /\ UNCHANGED <<nfsVars, fhVars, dirVars, connVars, listenVars, fileVars, mountVars>>

\* the read of GENERATION_NUMBER that get_generation_number returns
GenReturn(t) ==
    /\ race.op = "generation"
    /\ race.at[t] = "read"
    /\ race' = [race EXCEPT !.at[t] = "idle", !.calls[t] = @ + 1,
                            !.returned = Append(@, GENERATION_NUMBER)]
    /\ UNCHANGED <<wire, binding, live, fsmap>>
    /\ UNCHANGED <<now, GENERATION_NUMBER, GENERATION_NUMBER_INIT>>
    /\ UNCHANGED <<nfsVars, fhVars, dirVars, connVars, listenVars, fileVars, mountVars>>

NextGen ==
    \/ Tick
    \/ GenStart
    \/ \E t \in Tasks : GenCallOnce(t)
    \/ \E t \in Tasks : GenClosure(t)
    \/ \E t \in Tasks : GenReturn(t)

SpecGen == InitFh /\ [][NextGen]_vars

\* C34: the generation number is assigned once per process even when
\* several tasks make their first call concurrently: every call, from any
\* task, returns the same value, which does not change, and no call
\* returns the uninitialized value 0
C34_AssignedOnce ==
    race.op = "generation" =>
        /\ race.inits <= 1
        /\ \A i \in DOMAIN race.returned :
              /\ race.returned[i] # 0
              /\ race.returned[i] = race.returned[1]
              /\ race.returned[i] = GENERATION_NUMBER

\* a task made its first call while another was inside the closure, the
\* clock moved on, and every task has returned twice
C34_Witness ==
    /\ race.op = "generation"
    /\ \E t \in Tasks : race.waited[t]
    /\ now > StartMs
    /\ GENERATION_NUMBER = StartMs
    /\ Len(race.returned) = 2 * MaxTasks

\* C35: when the guard ctime of a SETATTR does not match the object's
\* ctime, back-end setattr is not invoked for the call, so the object's
\* attributes are after the call what they were before it
C35_GuardMismatchNoSetattr ==
    (/\ Replied({2})
     /\ call.a.guard = "mismatch") =>
        \A i \in DOMAIN call.res.backend : call.res.backend[i].op # "setattr"

\* ---------------------------------------------------------------------
\* CREATE calls for one (directory, name) handled by concurrent workers
\* (nfs_handlers.rs 1390-1490, mirrorfs.rs 260-335)
\* ---------------------------------------------------------------------

\* number of workers that handle a CREATE of the same name at once
MaxWorkers == 2
Workers == 1..MaxWorkers

\* MirrorFS::lookup of the name: Ok when the path exists on disk
MirrorFS_lookup(exists) == IF exists THEN Ok(2) ELSE Err("NFS3ERR_NOENT")
\* create_fs_object for CreateFSObject::File: std::fs::File::create opens
\* the path, truncating the file when it exists
MirrorFS_create(exists) == Ok(2)

\* the workers before their first back-end call; existed tells whether the
\* name was in the directory beforehand
CreateRace(existed, modes) ==
    [op |-> "create", existed |-> existed, exists |-> existed, creates |-> 0,
     truncated |-> 0, mode |-> modes,
     at |-> [w \in Workers |-> "pre_op"],
     status |-> [w \in Workers |-> "none"]]

\* the reader spawns a worker for each of the CREATE calls it received
RaceStart ==
    /\ race.op = "none"
    /\ \E existed \in BOOLEAN, modes \in [Workers -> {"UNCHECKED", "GUARDED"}] :
          race' = CreateRace(existed, modes)
    /\ UNCHANGED <<wire, binding, live, fsmap>>
    /\ UNCHANGED <<now, GENERATION_NUMBER, GENERATION_NUMBER_INIT>>
    /\ UNCHANGED <<nfsVars, fhVars, dirVars, connVars, listenVars, fileVars, mountVars>>

\* one back-end call of the worker w in nfsproc3_create, or its reply
WorkerStep(w) ==
    /\ race.op = "create"
    /\ race' =
         CASE race.at[w] = "pre_op" ->
                \* context.vfs.getattr(dirid), then the match on createhow
                [race EXCEPT !.at[w] = IF race.mode[w] = "GUARDED"
                                       THEN "lookup" ELSE "create"]
           [] race.at[w] = "lookup" ->
                IF guarded_exists(race.mode[w], MirrorFS_lookup(race.exists))
                THEN [race EXCEPT !.at[w] = "post_op", !.status[w] = "NFS3ERR_EXIST"]
                ELSE [race EXCEPT !.at[w] = "create"]
           [] race.at[w] = "create" ->
                LET fid == MirrorFS_create(race.exists) IN
                [race EXCEPT !.at[w] = "post_op",
                             !.status[w] = IF fid.ok THEN "NFS3_OK" ELSE fid.err,
                             !.exists = TRUE,
                             !.creates = @ + 1,
                             !.truncated = IF race.exists THEN @ + 1 ELSE @]
           [] race.at[w] = "post_op" ->
                \* context.vfs.getattr(dirid), then the reply is serialized
                [race EXCEPT !.at[w] = "replied"]
           [] OTHER -> race
    /\ race.at[w] # "replied"
    /\ UNCHANGED <<wire, binding, live, fsmap>>
    /\ UNCHANGED <<now, GENERATION_NUMBER, GENERATION_NUMBER_INIT>>
    /\ UNCHANGED <<nfsVars, fhVars, dirVars, connVars, listenVars, fileVars, mountVars>>

NextRace == RaceStart \/ \E w \in Workers : WorkerStep(w)

SpecRace == InitFh /\ [][NextRace]_vars

\* C36: when two CREATE calls with mode GUARDED for the same directory and
\* name are handled concurrently and the name does not exist beforehand,
\* at most one replies NFS3_OK, the other NFS3ERR_EXIST, and back-end
\* create is invoked at most once for the name
C36_OneGuardedCreateWins ==
    (/\ race.op = "create"
     /\ ~race.existed
     /\ \A w \in Workers : race.mode[w] = "GUARDED") =>
        /\ Cardinality({w \in Workers : race.status[w] = "NFS3_OK"}) <= 1
        /\ race.creates <= 1
        /\ (\A w \in Workers : race.at[w] = "replied") =>
              \E w \in Workers : race.status[w] = "NFS3ERR_EXIST"

\* C39: whenever the back-end returns at least one entry for a READDIR or
\* READDIRPLUS call, the success reply holds at least one entry or has
\* eof = true, for every dircount and maxcount, so that a client chaining
\* cookies until eof always advances
C39_ReaddirMakesProgress ==
    (/\ DirReplied({16, 17})
     /\ Len(ReaddirReturned.entries) >= 1) =>
        \/ Len(EntriesOf(call.res.out)) >= 1
        \/ EofOf(call.res.out)

\* ---------------------------------------------------------------------
\* The mirror back-end's id and path tables (examples/mirrorfs.rs)
\* ---------------------------------------------------------------------

\* file names a client uses
FsNames == {"a", "b"}
\* the deepest path below the exported root the model follows
MaxDepth == 2
\* the number of back-end calls the model follows
MaxFsCalls == 3

RECURSIVE PathsOfLen(_)
PathsOfLen(n) ==
    IF n = 0 THEN {<<>>}
    ELSE {Append(p, s) : p \in PathsOfLen(n - 1), s \in FsNames}

\* the paths below the exported root, as lists of interned names; intern()
\* is injective, so a Symbol is modelled by the name it stands for
FsPaths == UNION {PathsOfLen(n) : n \in 0..MaxDepth}

Parent(path) == SubSeq(path, 1, Len(path) - 1)

\* symlink_metadata() of a path: its type and modification time
NoMeta == [ftype |-> "none", mtime |-> 0]

exists_no_traverse(disk, path) == disk[path].ftype # "none"

\* the size is left out: no modelled call changes it without the mtime
fattr3_differ(lhs, rhs) == lhs.mtime # rhs.mtime \/ lhs.ftype # rhs.ftype

\* the host's system calls on the mirrored directory --------------------

DiskEmpty(disk, path) ==
    \A p \in FsPaths : (Len(p) = Len(path) + 1 /\ IsPrefix(path, p)) => disk[p].ftype = "none"

\* create_dir, File::create of a new file, symlink
DiskCreate(disk, path, ftype, t) ==
    [disk EXCEPT ![path] = [ftype |-> ftype, mtime |-> t],
                 ![Parent(path)].mtime = t]

\* remove_dir, remove_file
DiskRemove(disk, path, t) ==
    [disk EXCEPT ![path] = NoMeta, ![Parent(path)].mtime = t]

\* rename(2) succeeds
DiskRenameOk(disk, from, to) ==
    /\ disk[Parent(to)].ftype = "dir"
    /\ \/ from = to
       \/ /\ disk[from].ftype = "dir"
          /\ ~IsPrefix(from, to)
          /\ \/ disk[to].ftype = "none"
             \/ disk[to].ftype = "dir" /\ DiskEmpty(disk, to)
       \/ /\ disk[from].ftype \in {"file", "symlink"}
          /\ disk[to].ftype # "dir"

\* rename(2): the whole tree below from moves below to
DiskRename(disk, from, to, t) ==
    IF from = to THEN disk
    ELSE LET moved == [p \in FsPaths |->
                 IF IsPrefix(to, p)
                 THEN LET src == from \o Drop(p, Len(to))
                      IN  IF src \in FsPaths THEN disk[src] ELSE NoMeta
                 ELSE IF IsPrefix(from, p) THEN NoMeta
                 ELSE disk[p]]
         IN  [moved EXCEPT ![Parent(from)].mtime = t, ![Parent(to)].mtime = t]

\* the tree below from still fits the paths the model follows
RenameFits(disk, from, to) ==
    \A p \in FsPaths :
        (IsPrefix(from, p) /\ disk[p].ftype # "none") =>
            (to \o Drop(p, Len(from))) \in FsPaths

\* HashMap::insert, HashMap::remove
MapInsert(f, k, v) == [x \in DOMAIN f \cup {k} |-> IF x = k THEN v ELSE f[x]]
MapRemove(f, k) == [x \in DOMAIN f \ {k} |-> f[x]]

\* Option<BTreeSet<fileid3>>
NoChildren == [some |-> FALSE, ids |-> {}]
SomeChildren(ids) == [some |-> TRUE, ids |-> ids]

FSEntry(name, meta) ==
    [name |-> name, fsmeta |-> meta, children_meta |-> meta, children |-> NoChildren]

\* FSMap::new over a directory the host already populated
FSMap_new(disk) ==
    [op |-> "new",
     disk |-> disk,
     next_fileid |-> 1,
     id_to_path |-> (0 :> FSEntry(<<>>, disk[<<>>])),
     path_to_id |-> (<<>> :> 0),
     panicked |-> FALSE,
     calls |-> 0]

RECURSIVE collect_all_children(_, _, _)
\* the recursion is as deep as the cached tree, which has no more levels
\* than ids
collect_all_children(m, id, fuel) ==
    {id} \cup
    IF fuel > 0 /\ id \in DOMAIN m.id_to_path /\ m.id_to_path[id].children.some
    THEN UNION {collect_all_children(m, i, fuel - 1) : i \in m.id_to_path[id].children.ids}
    ELSE {}

delete_entry(m, id) ==
    LET children == collect_all_children(m, id, Cardinality(DOMAIN m.id_to_path))
        removed == children \cap DOMAIN m.id_to_path
        names == {m.id_to_path[i].name : i \in removed}
    IN  [m EXCEPT !.id_to_path = [i \in DOMAIN @ \ removed |-> @[i]],
                  !.path_to_id = [p \in DOMAIN @ \ names |-> @[p]]]

find_child(m, id, filename) ==
    IF id \notin DOMAIN m.id_to_path THEN Err("NFS3ERR_NOENT")
    ELSE LET name == Append(m.id_to_path[id].name, filename)
         IN  IF name \in DOMAIN m.path_to_id THEN Ok(m.path_to_id[name])
             ELSE Err("NFS3ERR_NOENT")

refresh_entry(m, id) ==
    IF id \notin DOMAIN m.id_to_path THEN [m |-> m, r |-> "NFS3ERR_NOENT"]
    ELSE LET entry == m.id_to_path[id]
             meta == m.disk[entry.name]
         IN  IF ~exists_no_traverse(m.disk, entry.name)
             THEN [m |-> delete_entry(m, id), r |-> "Delete"]
             ELSE IF ~fattr3_differ(meta, entry.fsmeta)
             THEN [m |-> m, r |-> "Noop"]
             ELSE IF entry.fsmeta.ftype # meta.ftype
             THEN [m |-> delete_entry(m, id), r |-> "Delete"]
             ELSE [m |-> [m EXCEPT !.id_to_path[id].fsmeta = meta], r |-> "Reload"]

create_entry(m, fullpath, meta) ==
    IF fullpath \in DOMAIN m.path_to_id
    THEN LET chid == m.path_to_id[fullpath]
         IN  [m |-> IF chid \in DOMAIN m.id_to_path
                    THEN [m EXCEPT !.id_to_path[chid].fsmeta = meta]
                    ELSE m,
              id |-> chid]
    ELSE LET next_id == m.next_fileid
         IN  [m |-> [m EXCEPT !.next_fileid = next_id + 1,
                              !.id_to_path = MapInsert(@, next_id, FSEntry(fullpath, meta)),
                              !.path_to_id = MapInsert(@, fullpath, next_id)],
              id |-> next_id]

RECURSIVE ListInto(_, _, _, _)
\* the while loop of refresh_dir_list over the listing of read_dir
ListInto(m, cur_path, listing, new_children) ==
    IF listing = <<>> THEN [m |-> m, children |-> new_children]
    ELSE LET sym == Head(listing)
             made == create_entry(m, Append(cur_path, sym), m.disk[Append(cur_path, sym)])
         IN  ListInto(made.m, cur_path, Tail(listing), new_children \cup {made.id})

\* order is the order in which the host lists a directory
refresh_dir_list(m, id, order) ==
    IF id \notin DOMAIN m.id_to_path THEN m
    ELSE LET entry == m.id_to_path[id]
         IN  IF entry.children.some /\ ~fattr3_differ(entry.children_meta, entry.fsmeta)
             THEN m
             ELSE IF entry.fsmeta.ftype # "dir" THEN m
             ELSE IF m.disk[entry.name].ftype # "dir" THEN m
             ELSE IF Len(entry.name) >= MaxDepth
             THEN [m EXCEPT !.id_to_path[id].children = SomeChildren({})]
             ELSE LET present(s) == exists_no_traverse(m.disk, Append(entry.name, s))
                      listing == SelectSeq(order, present)
                      listed == ListInto(m, entry.name, listing, {})
                  IN  [listed.m EXCEPT !.id_to_path[id].children = SomeChildren(listed.children)]

\* MirrorFS::lookup; the tables it leaves behind
FS_lookup(m, dirid, filename, order) ==
    LET found == find_child(m, dirid, filename)
    IN  IF found.ok /\ found.val \in DOMAIN m.id_to_path THEN m
        ELSE IF dirid \notin DOMAIN m.id_to_path THEN m
        ELSE IF ~exists_no_traverse(m.disk, Append(m.id_to_path[dirid].name, filename)) THEN m
        ELSE LET refreshed == refresh_entry(m, dirid)
             IN  IF refreshed.r = "Delete" THEN refreshed.m
                 ELSE refresh_dir_list(refreshed.m, dirid, order)

\* MirrorFS::readdir; what follows refresh_dir_list only reads
FS_readdir(m, dirid, order) ==
    LET refreshed == refresh_entry(m, dirid)
    IN  IF refreshed.r = "NFS3ERR_NOENT" THEN m
        ELSE refresh_dir_list(refreshed.m, dirid, order)

\* the match of create_fs_object: the result of the system call on path
CreateOnDisk(disk, path, object, t) ==
    LET parent_is_dir == disk[Parent(path)].ftype = "dir"
        here == disk[path].ftype
    IN  CASE object = "Directory" ->
                 IF here # "none" THEN [err |-> "NFS3ERR_EXIST", disk |-> disk]
                 ELSE IF ~parent_is_dir THEN [err |-> "NFS3ERR_IO", disk |-> disk]
                 ELSE [err |-> "NFS3_OK", disk |-> DiskCreate(disk, path, "dir", t)]
          [] object = "File" ->
                 IF ~parent_is_dir \/ here = "dir" THEN [err |-> "NFS3ERR_IO", disk |-> disk]
                 ELSE IF here = "symlink" THEN [err |-> "NFS3_OK", disk |-> disk]
                 ELSE IF here = "file"
                 THEN [err |-> "NFS3_OK", disk |-> [disk EXCEPT ![path].mtime = t]]
                 ELSE [err |-> "NFS3_OK", disk |-> DiskCreate(disk, path, "file", t)]
          [] object = "Exclusive" ->
                 IF ~parent_is_dir \/ here # "none" THEN [err |-> "NFS3ERR_EXIST", disk |-> disk]
                 ELSE [err |-> "NFS3_OK", disk |-> DiskCreate(disk, path, "file", t)]
          [] object = "Symlink" ->
                 IF here # "none" THEN [err |-> "NFS3ERR_EXIST", disk |-> disk]
                 ELSE IF ~parent_is_dir THEN [err |-> "NFS3ERR_IO", disk |-> disk]
                 ELSE [err |-> "NFS3_OK", disk |-> DiskCreate(disk, path, "symlink", t)]

\* MirrorFS::create_fs_object, behind create, create_exclusive, mkdir and
\* symlink
create_fs_object(m, dirid, objectname, object, t) ==
    IF dirid \notin DOMAIN m.id_to_path THEN m
    ELSE LET ent == m.id_to_path[dirid]
             path == Append(ent.name, objectname)
             made == CreateOnDisk(m.disk, path, object, t)
         IN  IF made.err # "NFS3_OK" THEN m
             ELSE LET refreshed == refresh_entry([m EXCEPT !.disk = made.disk], dirid).m
                      entered == create_entry(refreshed, path, made.disk[path])
                  IN  IF dirid \notin DOMAIN entered.m.id_to_path THEN entered.m
                      ELSE IF entered.m.id_to_path[dirid].children.some
                      THEN [entered.m EXCEPT !.id_to_path[dirid].children.ids = @ \cup {entered.id}]
                      ELSE entered.m

\* MirrorFS::remove
FS_remove(m, dirid, filename, t) ==
    IF dirid \notin DOMAIN m.id_to_path THEN m
    ELSE LET ent == m.id_to_path[dirid]
             path == Append(ent.name, filename)
         IN  IF ~exists_no_traverse(m.disk, path) THEN m
             ELSE IF m.disk[path].ftype = "dir" /\ ~DiskEmpty(m.disk, path) THEN m
             ELSE LET removed == [m EXCEPT !.disk = DiskRemove(m.disk, path, t)]
                      forgotten ==
                          IF path \in DOMAIN removed.path_to_id
                          THEN LET fileid == removed.path_to_id[path]
                                   gone == [removed EXCEPT
                                               !.id_to_path = MapRemove(@, fileid),
                                               !.path_to_id = MapRemove(@, path)]
                               IN  IF dirid \in DOMAIN gone.id_to_path
                                      /\ gone.id_to_path[dirid].children.some
                                   THEN [gone EXCEPT !.id_to_path[dirid].children.ids = @ \ {fileid}]
                                   ELSE gone
                          ELSE removed
                  IN  refresh_entry(forgotten, dirid).m

\* the table update of MirrorFS::rename once the host renamed the file
rename_tables(m, fileid, from_dirid, from_sympath, to_dirid, to_sympath) ==
    LET named == [m EXCEPT !.id_to_path[fileid].name = to_sympath,
                           !.path_to_id = MapInsert(MapRemove(@, from_sympath), to_sympath, fileid)]
        left == IF from_dirid \in DOMAIN named.id_to_path
                   /\ named.id_to_path[from_dirid].children.some
                THEN [named EXCEPT !.id_to_path[from_dirid].children.ids = @ \ {fileid}]
                ELSE named
        joined == IF to_dirid \in DOMAIN left.id_to_path
                     /\ left.id_to_path[to_dirid].children.some
                  THEN [left EXCEPT !.id_to_path[to_dirid].children.ids = @ \cup {fileid}]
                  ELSE left
    IN  IF to_dirid # from_dirid THEN joined ELSE named

\* MirrorFS::rename
FS_rename(m, from_dirid, from_filename, to_dirid, to_filename, t) ==
    IF from_dirid \notin DOMAIN m.id_to_path \/ to_dirid \notin DOMAIN m.id_to_path THEN m
    ELSE LET from_sympath == Append(m.id_to_path[from_dirid].name, from_filename)
             to_sympath == Append(m.id_to_path[to_dirid].name, to_filename)
         IN  IF ~exists_no_traverse(m.disk, m.id_to_path[to_dirid].name) THEN m
             ELSE IF ~exists_no_traverse(m.disk, from_sympath) THEN m
             ELSE IF ~DiskRenameOk(m.disk, from_sympath, to_sympath) THEN m
             ELSE LET renamed == [m EXCEPT !.disk = DiskRename(m.disk, from_sympath, to_sympath, t)]
                      updated ==
                          IF from_sympath \in DOMAIN renamed.path_to_id
                          THEN LET fileid == renamed.path_to_id[from_sympath]
                               IN  IF fileid \notin DOMAIN renamed.id_to_path
                                   THEN [renamed EXCEPT !.panicked = TRUE]
                                   ELSE rename_tables(renamed, fileid, from_dirid, from_sympath,
                                                      to_dirid, to_sympath)
                          ELSE renamed
                      first == refresh_entry(updated, from_dirid).m
                  IN  IF updated.panicked THEN updated
                      ELSE IF to_dirid # from_dirid THEN refresh_entry(first, to_dirid).m
                      ELSE first

\* the calls a client makes ---------------------------------------------

\* directories the host holds before the server starts
EmptyDisk == [p \in FsPaths |-> IF p = <<>> THEN [ftype |-> "dir", mtime |-> 0] ELSE NoMeta]
InitialDisks ==
    {EmptyDisk,
     [EmptyDisk EXCEPT ![<<"a">>] = [ftype |-> "dir", mtime |-> 0],
                       ![<<"a", "a">>] = [ftype |-> "file", mtime |-> 0],
                       ![<<"b">>] = [ftype |-> "file", mtime |-> 0]]}

ListingOrders == {<<"a", "b">>, <<"b", "a">>}

\* ids a client may hold: the ones handed out so far and one never issued
KnownIds == 0..fsmap.next_fileid

\* a joined path the model follows
Follows(dirid, filename) ==
    dirid \in DOMAIN fsmap.id_to_path => Len(fsmap.id_to_path[dirid].name) < MaxDepth

FsReady == fsmap.op # "none" /\ ~fsmap.panicked /\ fsmap.calls < MaxFsCalls

\* op names the call made last
FsDone(op, m) ==
    /\ fsmap' = [m EXCEPT !.op = op, !.calls = fsmap.calls + 1]
    /\ UNCHANGED <<wire, binding, live, race>>
    /\ UNCHANGED <<now, GENERATION_NUMBER, GENERATION_NUMBER_INIT>>
    /\ UNCHANGED <<nfsVars, fhVars, dirVars, connVars, listenVars, fileVars, mountVars>>

\* MirrorFS::new
FsNew ==
    /\ fsmap.op = "none"
    /\ \E disk \in InitialDisks : fsmap' = FSMap_new(disk)
    /\ UNCHANGED <<wire, binding, live, race>>
    /\ UNCHANGED <<now, GENERATION_NUMBER, GENERATION_NUMBER_INIT>>
    /\ UNCHANGED <<nfsVars, fhVars, dirVars, connVars, listenVars, fileVars, mountVars>>

FsLookup ==
    /\ FsReady
    /\ \E dirid \in KnownIds, filename \in FsNames, order \in ListingOrders :
           /\ Follows(dirid, filename)
           /\ FsDone("lookup", FS_lookup(fsmap, dirid, filename, order))

FsReaddir ==
    /\ FsReady
    /\ \E dirid \in KnownIds, order \in ListingOrders :
           FsDone("readdir", FS_readdir(fsmap, dirid, order))

FsCreate ==
    /\ FsReady
    /\ \E dirid \in KnownIds, filename \in FsNames :
           /\ Follows(dirid, filename)
           /\ FsDone("create", create_fs_object(fsmap, dirid, filename, "File", fsmap.calls + 1))

FsCreateExclusive ==
    /\ FsReady
    /\ \E dirid \in KnownIds, filename \in FsNames :
           /\ Follows(dirid, filename)
           /\ FsDone("create_exclusive", create_fs_object(fsmap, dirid, filename, "Exclusive", fsmap.calls + 1))

FsMkdir ==
    /\ FsReady
    /\ \E dirid \in KnownIds, filename \in FsNames :
           /\ Follows(dirid, filename)
           /\ FsDone("mkdir", create_fs_object(fsmap, dirid, filename, "Directory", fsmap.calls + 1))

FsSymlink ==
    /\ FsReady
    /\ \E dirid \in KnownIds, filename \in FsNames :
           /\ Follows(dirid, filename)
           /\ FsDone("symlink", create_fs_object(fsmap, dirid, filename, "Symlink", fsmap.calls + 1))

FsRemove ==
    /\ FsReady
    /\ \E dirid \in KnownIds, filename \in FsNames :
           /\ Follows(dirid, filename)
           /\ FsDone("remove", FS_remove(fsmap, dirid, filename, fsmap.calls + 1))

FsRename ==
    /\ FsReady
    /\ \E from_dirid \in KnownIds, to_dirid \in KnownIds,
          from_filename \in FsNames, to_filename \in FsNames :
           /\ Follows(from_dirid, from_filename)
           /\ Follows(to_dirid, to_filename)
           /\ (from_dirid \in DOMAIN fsmap.id_to_path /\ to_dirid \in DOMAIN fsmap.id_to_path) =>
                  RenameFits(fsmap.disk,
                             Append(fsmap.id_to_path[from_dirid].name, from_filename),
                             Append(fsmap.id_to_path[to_dirid].name, to_filename))
           /\ FsDone("rename", FS_rename(fsmap, from_dirid, from_filename, to_dirid, to_filename,
                               fsmap.calls + 1))

NextFsmap ==
    \/ FsNew
    \/ FsLookup
    \/ FsReaddir
    \/ FsCreate
    \/ FsCreateExclusive
    \/ FsMkdir
    \/ FsSymlink
    \/ FsRemove
    \/ FsRename

SpecFsmap == InitFh /\ [][NextFsmap]_vars

\* C40: in the mirror back-end, after any sequence of lookup, readdir,
\* create, create_exclusive, mkdir, symlink, remove and rename calls the
\* two tables are mutually inverse: path_to_id maps path p to id i exactly
\* when id_to_path[i].name = p
C40_TablesInverse ==
    fsmap.op # "none" =>
        /\ \A p \in DOMAIN fsmap.path_to_id :
               /\ fsmap.path_to_id[p] \in DOMAIN fsmap.id_to_path
               /\ fsmap.id_to_path[fsmap.path_to_id[p]].name = p
        /\ \A i \in DOMAIN fsmap.id_to_path :
               /\ fsmap.id_to_path[i].name \in DOMAIN fsmap.path_to_id
               /\ fsmap.path_to_id[fsmap.id_to_path[i].name] = i

\* ---------------------------------------------------------------------
\* NFSTcpListener::bind (tcp.rs)
\* ---------------------------------------------------------------------

\* let mut num_tries_left = 32
NumTries == 32
\* the longest run of addresses 127.88.0.1, 127.88.0.2, ... the host refuses
MaxRefused == 34

\* "127.88.{}.{}" of the two bytes of hostnum
generate_host_ip(hostnum) == <<127, 88, (hostnum \div 256) % 256, hostnum % 256>>

\* TcpListener::bind(ip:port): the host refuses the addresses of `refused`
bind_internal(ip, port, refused) ==
    IF ip \in refused THEN [ok |-> FALSE, err |-> "bind", ip |-> ip, port |-> port]
    ELSE [ok |-> TRUE, err |-> "", ip |-> ip, port |-> port]

RECURSIVE bind_auto(_, _, _, _, _)
\* for try_ip in 1u16.. { ... }: the result returned and the addresses tried
bind_auto(try_ip, num_tries_left, port, refused, tried) ==
    LET ip == generate_host_ip(try_ip)
        result == bind_internal(ip, port, refused)
        t == Append(tried, ip) IN
    IF ~result.ok
    THEN IF num_tries_left = 0 THEN [result |-> result, tried |-> t]
         ELSE bind_auto(try_ip + 1, num_tries_left - 1, port, refused, t)
    ELSE [result |-> result, tried |-> t]

\* an ipstr: whether it holds a ':', the text before it ("auto", or the
\* address it names), whether the text after it parses as a u16, and the
\* port it parses to
IpStr(has_colon, host, ip, port_ok, port) ==
    [has_colon |-> has_colon, host |-> host, ip |-> ip, port_ok |-> port_ok,
     port |-> port]
AddrNotAvailable == [ok |-> FALSE, err |-> "AddrNotAvailable", ip |-> <<>>, port |-> 0]

NFSTcpListener_bind(ipstr, refused) ==
    IF ~ipstr.has_colon THEN [result |-> AddrNotAvailable, tried |-> <<>>]
    ELSE IF ~ipstr.port_ok THEN [result |-> AddrNotAvailable, tried |-> <<>>]
    ELSE IF ipstr.host = "auto"
         THEN bind_auto(1, NumTries, ipstr.port, refused, <<>>)
         ELSE [result |-> bind_internal(ipstr.ip, ipstr.port, refused),
               tried |-> <<ipstr.ip>>]

Localhost == <<127, 0, 0, 1>>
IpStrInputs ==
    {IpStr(TRUE, "auto", <<>>, TRUE, p) : p \in {0, 2049, 11111}}
    \cup {IpStr(TRUE, "address", Localhost, TRUE, 2049),
          IpStr(FALSE, "auto", <<>>, FALSE, 0),
          IpStr(TRUE, "auto", <<>>, FALSE, 0)}
\* what the host refuses: the first k automatic addresses, or some others
RefusedInputs ==
    {{generate_host_ip(i) : i \in 1..k} : k \in 0..MaxRefused}
    \cup {{generate_host_ip(i) : i \in S} : S \in {{2, 3}, {1, 3}, {1, 2, 4}}}
    \cup {{Localhost}}

\* the program binds its listener once
Bind ==
    /\ binding.state = "unbound"
    /\ \E ipstr \in IpStrInputs, refused \in RefusedInputs :
          binding' = [state |-> "returned", ipstr |-> ipstr, refused |-> refused,
                      res |-> NFSTcpListener_bind(ipstr, refused)]
    /\ UNCHANGED <<wire, live, race, fsmap>>
    /\ UNCHANGED <<now, GENERATION_NUMBER, GENERATION_NUMBER_INIT>>
    /\ UNCHANGED <<nfsVars, fhVars, dirVars, connVars, listenVars, fileVars, mountVars>>

NextBind == Bind

SpecBind == InitWire /\ [][NextBind]_vars

AutoBind ==
    /\ binding.state = "returned"
    /\ binding.ipstr.has_colon
    /\ binding.ipstr.port_ok
    /\ binding.ipstr.host = "auto"

\* C28: bind with host "auto" tries 127.88.0.1, 127.88.0.2, ... in
\* increasing order, returns the first listener that binds and tries no
\* address after it, and when every bind fails returns the bind error
\* after exactly 32 attempts
C28_AutoBind ==
    AutoBind =>
        LET tried == binding.res.tried
            result == binding.res.result IN
        /\ Len(tried) >= 1
        /\ \A i \in 1..Len(tried) : tried[i] = <<127, 88, 0, i>>
        /\ \A i \in 1..(Len(tried) - 1) : tried[i] \in binding.refused
        /\ result.ok =>
              /\ result.ip = tried[Len(tried)]
              /\ result.ip \notin binding.refused
        /\ ~result.ok =>
              /\ result.err = "bind"
              /\ Len(tried) = 32

\* ---------------------------------------------------------------------
\* XDR serialization (xdr.rs)
\* ---------------------------------------------------------------------

\* an XDR type: its kind and, for a struct or a bool union, its member types
XT(k, kids) == [k |-> k, kids |-> kids]
\* an XDR value: words holds the 16-bit halves of an unsigned integer, n a
\* signed one, b a bool or the arm of a union, data the elements of a Vec
XV(k, words, n, b, data, kids) ==
    [k |-> k, words |-> words, n |-> n, b |-> b, data |-> data, kids |-> kids]
XU32(hi, lo) == XV("u32", <<hi, lo>>, 0, FALSE, <<>>, <<>>)
XI32(n) == XV("i32", <<>>, n, FALSE, <<>>, <<>>)
XU64(h3, h2, h1, h0) == XV("u64", <<h3, h2, h1, h0>>, 0, FALSE, <<>>, <<>>)
XBool(b) == XV("bool", <<>>, 0, b, <<>>, <<>>)
XOpaque(bytes) == XV("opaque", <<>>, 0, FALSE, bytes, <<>>)
XU32s(ws) == XV("u32s", <<>>, 0, FALSE, ws, <<>>)
XStruct(kids) == XV("struct", <<>>, 0, FALSE, <<>>, kids)
XVoid == XV("union", <<>>, 0, FALSE, <<>>, <<>>)
XArm(v) == XV("union", <<>>, 0, TRUE, <<>>, <<v>>)

\* the number of padding bytes after `length` bytes of data
xdr_pad_mutant(length) == 0
xdr_pad(length) == (4 - (length % 4)) % 4

\* write_i32::<BigEndian>: the two's complement of n, most significant first
i32_to_be_bytes(n) == u32_to_be_bytes(U32Of((n \div Half) % Half, n % Half))
\* read_i32::<BigEndian>
i32_from_be_bytes(b) ==
    LET hi == b[1] * 256 + b[2]
        lo == b[3] * 256 + b[4] IN
    IF hi >= 32768 THEN (hi - Half) * Half + lo ELSE hi * Half + lo

RECURSIVE serialize(_)
RECURSIVE serialize_all(_)
\* XDR::serialize: the bytes written to dest
serialize(x) ==
    CASE x.k = "u32" -> u32_to_be_bytes(U32Of(x.words[1], x.words[2]))
      [] x.k = "i32" -> i32_to_be_bytes(x.n)
      [] x.k = "u64" -> u32_to_be_bytes(U32Of(x.words[1], x.words[2]))
                        \o u32_to_be_bytes(U32Of(x.words[3], x.words[4]))
      [] x.k = "bool" -> u32_to_be_bytes(U32Of(0, IF x.b THEN 1 ELSE 0))
      [] x.k = "opaque" ->
            u32_to_be_bytes(U32Of(Len(x.data) \div Half, Len(x.data) % Half))
            \o x.data
            \o [i \in 1..xdr_pad(Len(x.data)) |-> 0]
      [] x.k = "u32s" ->
            u32_to_be_bytes(U32Of(Len(x.data) \div Half, Len(x.data) % Half))
            \o serialize_all([i \in 1..Len(x.data) |->
                                 XU32(x.data[i][1], x.data[i][2])])
      [] x.k = "struct" -> serialize_all(x.kids)
      [] x.k = "union" ->
            IF x.b THEN serialize(XBool(TRUE)) \o serialize(x.kids[1])
            ELSE serialize(XBool(FALSE))
\* the members of a struct, in declaration order
serialize_all(xs) ==
    IF xs = <<>> THEN <<>> ELSE serialize(Head(xs)) \o serialize_all(Tail(xs))

\* the outcome of a deserialize: the value read and the bytes left in src,
\* or the error of a read_exact that found src too short
XOk(val, rest) == [ok |-> TRUE, val |-> val, rest |-> rest]
XEof == [ok |-> FALSE, val |-> XVoid, rest |-> <<>>]

RECURSIVE deserialize(_, _)
RECURSIVE deserialize_all(_, _, _)
RECURSIVE deserialize_u32s(_, _, _)
\* XDR::deserialize for a destination of type ty reading src
deserialize(ty, src) ==
    CASE ty.k \in {"u32", "i32", "bool"} ->
            IF Len(src) < 4 THEN XEof
            ELSE LET hi == src[1] * 256 + src[2]
                     lo == src[3] * 256 + src[4] IN
                 XOk(CASE ty.k = "u32" -> XU32(hi, lo)
                       [] ty.k = "i32" -> XI32(i32_from_be_bytes(src))
                       [] ty.k = "bool" -> XBool(hi > 0 \/ lo > 0),
                     Drop(src, 4))
      [] ty.k = "u64" ->
            IF Len(src) < 8 THEN XEof
            ELSE XOk(XU64(src[1] * 256 + src[2], src[3] * 256 + src[4],
                          src[5] * 256 + src[6], src[7] * 256 + src[8]),
                     Drop(src, 8))
      [] ty.k = "opaque" ->
            LET length == deserialize(XT("u32", <<>>), src) IN
            IF ~length.ok THEN XEof
            ELSE LET hi == length.val.words[1]
                     n == length.val.words[2]
                     pad == xdr_pad(n) IN
                 IF hi > 0 \/ Len(length.rest) < n THEN XEof
                 ELSE IF Len(length.rest) < n + pad THEN XEof
                 ELSE XOk(XOpaque(SubSeq(length.rest, 1, n)),
                          Drop(length.rest, n + pad))
      [] ty.k = "u32s" ->
            LET length == deserialize(XT("u32", <<>>), src) IN
            IF ~length.ok THEN XEof
            ELSE IF length.val.words[1] > 0 THEN XEof
            ELSE deserialize_u32s(length.val.words[2], length.rest, <<>>)
      [] ty.k = "struct" -> deserialize_all(ty.kids, src, <<>>)
      [] ty.k = "union" ->
            LET c == deserialize(XT("bool", <<>>), src) IN
            IF ~c.ok THEN XEof
            ELSE IF ~c.val.b THEN XOk(XVoid, c.rest)
            ELSE LET r == deserialize(ty.kids[1], c.rest) IN
                 IF ~r.ok THEN XEof ELSE XOk(XArm(r.val), r.rest)
\* the members of a struct, in declaration order
deserialize_all(tys, src, done) ==
    IF tys = <<>> THEN XOk(XStruct(done), src)
    ELSE LET r == deserialize(Head(tys), src) IN
         IF ~r.ok THEN XEof
         ELSE deserialize_all(Tail(tys), r.rest, Append(done, r.val))
\* the n elements of a Vec<u32>
deserialize_u32s(n, src, done) ==
    IF n = 0 THEN XOk(XU32s(done), src)
    ELSE LET r == deserialize(XT("u32", <<>>), src) IN
         IF ~r.ok THEN XEof
         ELSE deserialize_u32s(n - 1, r.rest, Append(done, r.val.words))

\* the types of the protocol the values are drawn from
T_u32 == XT("u32", <<>>)
T_i32 == XT("i32", <<>>)
T_u64 == XT("u64", <<>>)
T_bool == XT("bool", <<>>)
T_opaque == XT("opaque", <<>>)
T_u32s == XT("u32s", <<>>)
T_nfs_fh3 == XT("struct", <<T_opaque>>)
T_nfstime3 == XT("struct", <<T_u32, T_u32>>)
T_diropargs3 == XT("struct", <<T_nfs_fh3, T_opaque>>)
T_wcc_attr == XT("struct", <<T_u64, T_nfstime3, T_nfstime3>>)
T_pre_op_attr == XT("union", <<T_wcc_attr>>)
T_post_op_fh3 == XT("union", <<T_nfs_fh3>>)
T_set_size3 == XT("union", <<T_u64>>)
T_auth_unix == XT("struct", <<T_u32, T_opaque, T_u32, T_u32, T_u32s>>)

U32Inputs == {XU32(hi, lo) : hi \in {0, 1, 65535}, lo \in {0, 1, 255, 256, 65535}}
I32Inputs == {XI32(n) : n \in {-2147483647 - 1, -65536, -1, 0, 1, 255, 65536, 2147483647}}
U64Inputs == {XU64(h3, h2, 0, h0) : h3 \in {0, 65535}, h2 \in {0, 1}, h0 \in {0, 258}}
OpaqueInputs == {XOpaque(b) : b \in SeqsUpTo({0, 255}, MaxBufLen)}
U32sInputs == {XU32s(ws) : ws \in SeqsUpTo({<<0, 1>>, <<65535, 65280>>}, 2)}
FhValues == {XStruct(<<o>>) : o \in {XOpaque(<<>>), XOpaque(<<1>>), XOpaque(<<1, 2, 3, 4, 5>>)}}
TimeValues == {XStruct(<<XU32(0, s), XU32(15258, 51711)>>) : s \in {0, 7}}
WccValues == {XStruct(<<u, t, t>>) : u \in {XU64(0, 0, 0, 5), XU64(1, 0, 0, 0)}, t \in TimeValues}

\* the (type, value) pairs serialized and read back
XdrInputs ==
    {<<T_u32, x>> : x \in U32Inputs}
    \cup {<<T_i32, x>> : x \in I32Inputs}
    \cup {<<T_u64, x>> : x \in U64Inputs}
    \cup {<<T_bool, XBool(b)>> : b \in BOOLEAN}
    \cup {<<T_opaque, x>> : x \in OpaqueInputs}
    \cup {<<T_u32s, x>> : x \in U32sInputs}
    \cup {<<T_nfs_fh3, x>> : x \in FhValues}
    \cup {<<T_nfstime3, x>> : x \in TimeValues}
    \cup {<<T_diropargs3, XStruct(<<f, n>>)>> :
             f \in FhValues, n \in {XOpaque(<<>>), XOpaque(<<97, 98>>), XOpaque(<<97, 98, 99>>)}}
    \cup {<<T_wcc_attr, x>> : x \in WccValues}
    \cup {<<T_pre_op_attr, x>> : x \in {XVoid} \cup {XArm(w) : w \in WccValues}}
    \cup {<<T_post_op_fh3, x>> : x \in {XVoid} \cup {XArm(f) : f \in FhValues}}
    \cup {<<T_set_size3, x>> : x \in {XVoid} \cup {XArm(u) : u \in U64Inputs}}
    \cup {<<T_auth_unix, XStruct(<<XU32(0, 9), XOpaque(m), XU32(0, 501), XU32(0, 20), g>>)>> :
             m \in {<<>>, <<104>>, <<104, 111, 115>>}, g \in U32sInputs}

\* a value is serialized, bytes of a following value are appended, and a
\* destination of the same type deserializes from the result
RoundTrip ==
    /\ \E p \in XdrInputs, tail \in {<<>>, <<0, 0, 0, 7>>} :
          LET enc == serialize(p[2]) IN
          wire' = [op |-> "round_trip", type |-> p[1], x |-> p[2],
                   enc |-> enc, tail |-> tail,
                   dec |-> deserialize(p[1], enc \o tail)]
    /\ UNCHANGED <<binding, live, race, fsmap>>
    /\ UNCHANGED <<now, GENERATION_NUMBER, GENERATION_NUMBER_INIT>>
    /\ UNCHANGED <<nfsVars, fhVars, dirVars, connVars, listenVars, fileVars, mountVars>>

\* C27: a value of an XDR type (integer, bool, opaque byte string, u32
\* array, struct, bool union) that is serialized and deserialized comes back
\* equal, the deserialization consuming the serialized bytes and no more;
\* the serialized length is a multiple of 4, and a byte string of n bytes
\* takes 4 + n + ((4 - n mod 4) mod 4) bytes, the last ones being zero
C27_RoundTrip ==
    wire.op = "round_trip" =>
        /\ wire.dec.ok
        /\ wire.dec.val = wire.x
        /\ wire.dec.rest = wire.tail
        /\ Len(wire.enc) % 4 = 0
        /\ wire.x.k = "opaque" =>
              LET n == Len(wire.x.data) IN
              /\ Len(wire.enc) = 4 + n + ((4 - (n % 4)) % 4)
              /\ \A i \in (4 + n + 1)..Len(wire.enc) : wire.enc[i] = 0

\* a byte string of 3 bytes followed by another value has gone through 8
\* bytes, the last one padding, and has been read back
C27_Witness ==
    /\ wire.op = "round_trip"
    /\ wire.x.k = "opaque"
    /\ Len(wire.x.data) = 3
    /\ Len(wire.enc) = 8
    /\ wire.tail # <<>>
    /\ wire.dec.ok
    /\ wire.dec.val = wire.x

NextWire == WriteFragment \/ DecodeTag \/ RoundTrip

SpecWire == InitWire /\ [][NextWire]_vars

====
